---- MODULE Spec2Model ----
(***************************************************************************)
(* Discovery cache of anet: the Record Store and SyncState table of        *)
(* AgentIndexer (src/core/discovery/indexer.ts), the sync orchestrator     *)
(* (core/discovery/sync.ts) and the Graph source (core/discovery/graph.ts).*)
(***************************************************************************)
EXTENDS Integers, Sequences, FiniteSets, TLC

(***************************************************************************)
(* Bounds of the model.                                                    *)
(***************************************************************************)
MaxAgentId == 2      \* agent ids 1..MaxAgentId
MaxRep     == 2      \* reputation scores 0..MaxRep
StartTime  == 99     \* Date.now() at construction (crosses 99 -> 100)
MaxTicks   == 2      \* the clock advances at most MaxTicks times
MaxTtl     == 1      \* ttlMs values 1..MaxTtl
MaxRemote  == 2      \* a source holds at most MaxRemote agents
MaxCalls   == 2      \* calls of the orchestrator started in one run
MaxListed  == 3      \* agents a source serves when it is studied on its own
MaxHead    == 12     \* block numbers 0..MaxHead
startBlock == 1      \* SYNC_CONFIG.mainnet.startBlock, 41_000_000 in the code
CHUNK_SIZE == 9      \* syncFromChain: 9999 in the code (windows of 10,000)
SUB_SIZE   == 2      \* syncFromChain: the fallback windows, 2000 in the code
PAGE_SIZE  == 2      \* page size of the Graph queries, scaled down from 1000
pageSize   == 2      \* page size of the REST requests, scaled down from 100

AgentIds == 1..MaxAgentId
Reps     == 0..MaxRep
Times    == StartTime..(StartTime + MaxTicks)
Ttls     == 1..MaxTtl
Networks == {"mainnet", "testnet"}

Min(a, b) == IF a < b THEN a ELSE b

(***************************************************************************)
(* JavaScript values.  A value is a record tagged with its type; text is a *)
(* sequence of one-character strings so that it can be scanned.            *)
(***************************************************************************)
Undefined == [t |-> "undefined"]
Null      == [t |-> "null"]
Str(s)    == [t |-> "string", v |-> s]
Num(n)    == [t |-> "number", v |-> n]
Arr(a)    == [t |-> "array",  v |-> a]
Obj(o)    == [t |-> "object", v |-> o]
Bool(b)   == [t |-> "boolean", v |-> b]

\* JS truthiness: undefined, null, '', 0 and false are falsy.
Falsy(x) ==
  \/ x.t \in {"undefined", "null"}
  \/ (x.t = "string" /\ x.v = <<>>)
  \/ (x.t = "number" /\ x.v = 0)
  \/ (x.t = "boolean" /\ ~x.v)

\* a || b
Or(a, b) == IF Falsy(a) THEN b ELSE a

\* a ?? b
Coalesce(a, b) == IF a.t \in {"undefined", "null"} THEN b ELSE a

\* o?.f
OptGet(o, f) == IF o.t \in {"undefined", "null"} THEN Undefined ELSE o.v[f]

(***************************************************************************)
(* Number.prototype.toString and parseInt on decimal text.                 *)
(***************************************************************************)
Digits == <<"0", "1", "2", "3", "4", "5", "6", "7", "8", "9">>

DigitVal(c) == (CHOOSE i \in 1..10 : Digits[i] = c) - 1

IsDigit(c) == \E i \in 1..10 : Digits[i] = c

RECURSIVE toString(_)
toString(n) ==
  IF n < 10 THEN <<Digits[n + 1]>>
  ELSE toString(n \div 10) \o <<Digits[(n % 10) + 1]>>

\* parseInt: the value of the longest prefix of digits; NaN when there is
\* none (NaN is modelled as -1: every comparison with NaN is false, and the
\* callers only compare).
NaN == -1

RECURSIVE ParseDigits(_, _)
ParseDigits(s, acc) ==
  IF s = <<>> \/ ~IsDigit(Head(s)) THEN acc
  ELSE ParseDigits(Tail(s), acc * 10 + DigitVal(Head(s)))

parseInt(s) ==
  IF s = <<>> \/ ~IsDigit(Head(s)) THEN NaN ELSE ParseDigits(s, 0)

(***************************************************************************)
(* JSON.stringify / JSON.parse of an array of strings.  The tags of the    *)
(* model contain no quote and no backslash, so nothing is escaped.         *)
(***************************************************************************)
RECURSIVE JoinQuoted(_)
JoinQuoted(tags) ==
  IF tags = <<>> THEN <<>>
  ELSE <<"\"">> \o Head(tags) \o <<"\"">>
       \o (IF Len(tags) > 1 THEN <<",">> ELSE <<>>)
       \o JoinQuoted(Tail(tags))

JSONstringify(tags) == <<"[">> \o JoinQuoted(tags) \o <<"]">>

\* Scan the text: a quote opens or closes a string, the characters between
\* two quotes are the string, everything outside strings is punctuation.
RECURSIVE ParseArray(_, _, _, _)
ParseArray(text, inString, cur, acc) ==
  IF text = <<>> THEN acc
  ELSE IF Head(text) = "\""
       THEN IF inString
            THEN ParseArray(Tail(text), FALSE, <<>>, Append(acc, cur))
            ELSE ParseArray(Tail(text), TRUE, <<>>, acc)
       ELSE IF inString
            THEN ParseArray(Tail(text), TRUE, Append(cur, Head(text)), acc)
            ELSE ParseArray(Tail(text), FALSE, cur, acc)

JSONparse(text) == ParseArray(text, FALSE, <<>>, <<>>)

(***************************************************************************)
(* SQLite's LIKE: % matches any run of characters, _ matches exactly one   *)
(* character, any other character matches itself, ignoring ASCII case.     *)
(***************************************************************************)
UpperChars == <<"A", "B", "C", "D", "E", "F", "G", "H", "I", "J", "K", "L", "M",
                "N", "O", "P", "Q", "R", "S", "T", "U", "V", "W", "X", "Y", "Z">>
LowerChars == <<"a", "b", "c", "d", "e", "f", "g", "h", "i", "j", "k", "l", "m",
                "n", "o", "p", "q", "r", "s", "t", "u", "v", "w", "x", "y", "z">>

toLowerChar(c) ==
  IF \E i \in 1..26 : UpperChars[i] = c
  THEN LowerChars[CHOOSE i \in 1..26 : UpperChars[i] = c]
  ELSE c

RECURSIVE Like(_, _)
Like(pattern, text) ==
  IF pattern = <<>> THEN text = <<>>
  ELSE IF Head(pattern) = "%"
       THEN Like(Tail(pattern), text)
            \/ (text # <<>> /\ Like(pattern, Tail(text)))
       ELSE IF Head(pattern) = "_"
            THEN text # <<>> /\ Like(Tail(pattern), Tail(text))
            ELSE /\ text # <<>>
                 /\ toLowerChar(Head(pattern)) = toLowerChar(Head(text))
                 /\ Like(Tail(pattern), Tail(text))

(***************************************************************************)
(* Inputs: capability tags, metadata objects and search parameters.        *)
(***************************************************************************)
TagX402 == <<"x", "4", "0", "2">>
TagMcp  == <<"m", "c", "p">>
TagA2a  == <<"a", "2", "a">>
TagWeb  == <<"w", "e", "b">>

\* The metadata objects handed to indexAgent: a complete one, one whose
\* optional fields are null or empty, and the empty object.
MetaFull ==
  [ name           |-> Str(<<"T", "1">>),
    description    |-> Str(<<"d", "1">>),
    capabilities   |-> Arr(<<TagX402, TagMcp>>),
    agentURI       |-> Str(<<"d", "a", "t", "a", ":">>),
    paymentAddress |-> Str(<<"0", "x", "a">>),
    endpoints      |-> Obj([xmtp |-> Str(<<"0", "x", "a">>),
                            http |-> Str(<<"h", "1">>)]) ]

MetaSparse ==
  [ name           |-> Str(<<"T", "2">>),
    description    |-> Null,
    capabilities   |-> Arr(<<TagA2a>>),
    agentURI       |-> Str(<<>>),
    paymentAddress |-> Str(<<"0", "x", "d">>),
    endpoints      |-> Obj([xmtp |-> Null, http |-> Null]) ]

MetaEmpty ==
  [ name           |-> Undefined,
    description    |-> Undefined,
    capabilities   |-> Undefined,
    agentURI       |-> Undefined,
    paymentAddress |-> Undefined,
    endpoints      |-> Undefined ]

Metadatas == {MetaFull, MetaSparse, MetaEmpty}

\* Capability filters: absent, empty, a tag, a tag in another case, a
\* pattern with the one-character wildcard.
CapabilityFilters ==
  { Undefined,
    Str(<<>>),
    Str(TagX402),
    Str(<<"X", "4", "0", "2">>),
    Str(<<"a", "_", "a">>) }

MinReputations == {Undefined} \cup {Num(n) : n \in Reps}
Limits         == {Undefined} \cup {Num(n) : n \in 0..(MaxAgentId + 1)}

SearchParams ==
  [capability : CapabilityFilters, minReputation : MinReputations, limit : Limits]

SyncStateKeys == {"lastSyncTime_" \o n : n \in Networks}

(***************************************************************************)
(* State.                                                                  *)
(***************************************************************************)
VARIABLES
  agents,      \* table agents: agent_id -> row
  sync_state,  \* table sync_state: key -> value (text)
  now,         \* Date.now()
  ret,         \* the last operation on the indexer, its arguments and result
  graphApiKey, \* config.graphApiKey
  calls,       \* per caller: the frame of its call of the orchestrator
  ncalls,      \* calls of the orchestrator started so far
  timer        \* the interval timer of startPeriodicSync

vars == <<agents, sync_state, now, ret, graphApiKey, calls, ncalls, timer>>

\* getTopAgents(limit: number = 10)
DefaultLimit == 10

\* No call on the indexer is being looked at.
NoCall == [op |-> "none"]

\* startPeriodicSync has not been called: there is no timer.
NoTimer == [state |-> "none",     \* none, armed, cleared
            inflight |-> {}]      \* the callers in flight when it was cleared

(***************************************************************************)
(* AgentIndexer (src/core/discovery/indexer.ts).                           *)
(***************************************************************************)

\* Column defaults of CREATE TABLE agents.
ColumnDefaults ==
  [ name            |-> Null,
    description     |-> Null,
    capabilities    |-> <<"[", "]">>,
    xmtp_address    |-> Null,
    http_endpoint   |-> Null,
    payment_address |-> Null,
    reputation      |-> 0,
    feedback_count  |-> 0,
    last_updated    |-> Null ]

\* INSERT OR REPLACE: the row with this primary key, if any, is deleted and
\* a new row is inserted; columns the statement does not list get their
\* default.
InsertOrReplace_Merge(tbl, values) ==
  LET new  == values @@ ColumnDefaults
      id   == values.agent_id
      keep == {"name", "description", "xmtp_address", "http_endpoint",
               "payment_address"}
      row  == [c \in DOMAIN new |->
                 IF c \in keep /\ id \in DOMAIN tbl /\ new[c] = Null
                 THEN tbl[id][c] ELSE new[c]]
  IN  [i \in (DOMAIN tbl) \cup {id} |-> IF i = id THEN row ELSE tbl[i]]

InsertOrReplace(tbl, values) ==
  LET row == values @@ ColumnDefaults
  IN  [id \in (DOMAIN tbl) \cup {values.agent_id} |->
         IF id = values.agent_id THEN row ELSE tbl[id]]

\* The values bound by stmt.run(...) in indexAgent.
BoundValues(agentId, metadata, reputation, t) ==
  [ agent_id        |-> agentId,
    wallet_address  |-> Or(metadata.paymentAddress, Str(<<>>)),
    agent_uri       |-> Or(metadata.agentURI, Str(<<>>)),
    name            |-> Or(metadata.name, Null),
    description     |-> Or(metadata.description, Null),
    capabilities    |-> JSONstringify(Or(metadata.capabilities, Arr(<<>>)).v),
    xmtp_address    |-> Or(OptGet(metadata.endpoints, "xmtp"), Null),
    http_endpoint   |-> Or(OptGet(metadata.endpoints, "http"), Null),
    payment_address |-> Or(metadata.paymentAddress, Null),
    reputation      |-> reputation,
    indexed_at      |-> t ]

\* stmt.run throws when a value to bind is not a number, a string or null
\* (better-sqlite3 binds no boolean and no object).
RunThrows(values) ==
  \E c \in {"wallet_address", "agent_uri", "name", "description", "xmtp_address",
             "http_endpoint", "payment_address"} :
    values[c].t \notin {"number", "string", "null"}

\* row => ({ ...row, capabilities: JSON.parse(row.capabilities) })
ParseRow(row) == [row EXCEPT !.capabilities = JSONparse(@)]

indexAgent_DeleteFirst(agentId, metadata, reputation) ==
  /\ ret = NoCall
  /\ agents' = IF agentId \in DOMAIN agents
               THEN [id \in (DOMAIN agents) \ {agentId} |-> agents[id]]
               ELSE InsertOrReplace(agents, BoundValues(agentId, metadata, reputation, now))
  /\ ret' = [op |-> "indexAgent", agentId |-> agentId, metadata |-> metadata,
             reputation |-> reputation,
             replaced |-> IF agentId \in DOMAIN agents THEN Obj(agents[agentId])
                          ELSE Undefined]
  /\ UNCHANGED <<sync_state, now, graphApiKey, timer, calls, ncalls>>

indexAgent(agentId, metadata, reputation) ==
  /\ ret = NoCall
  /\ agents' = InsertOrReplace(agents, BoundValues(agentId, metadata, reputation, now))
  /\ ret' = [op |-> "indexAgent", agentId |-> agentId, metadata |-> metadata,
             reputation |-> reputation,
             replaced |-> IF agentId \in DOMAIN agents THEN Obj(agents[agentId])
                          ELSE Undefined]
  /\ UNCHANGED <<sync_state, now, graphApiKey, timer, calls, ncalls>>

getAgentValue(tbl, agentId) ==
  IF agentId \notin DOMAIN tbl THEN Undefined ELSE Obj(ParseRow(tbl[agentId]))

getAgent(agentId) ==
  /\ ret = NoCall
  /\ ret' = [op |-> "getAgent", agentId |-> agentId,
             value |-> getAgentValue(agents, agentId)]
  /\ UNCHANGED <<agents, sync_state, now, graphApiKey, timer, calls, ncalls>>

\* DELETE FROM agents WHERE agent_id = ?
DeleteWhere_UpTo(tbl, agentId) ==
  [id \in {i \in DOMAIN tbl : i > agentId} |-> tbl[id]]

DeleteWhere(tbl, agentId) ==
  [id \in (DOMAIN tbl) \ {agentId} |-> tbl[id]]

removeAgent(agentId) ==
  /\ ret = NoCall
  /\ agents' = DeleteWhere(agents, agentId)
  /\ ret' = [op |-> "removeAgent", agentId |-> agentId,
             stored |-> agentId \in DOMAIN agents]
  /\ UNCHANGED <<sync_state, now, graphApiKey, timer, calls, ncalls>>

\* The WHERE clause built by searchAgents.
Where(row, params) ==
  /\ ~Falsy(params.capability) =>
       Like(<<"%">> \o params.capability.v \o <<"%">>, row.capabilities)
  /\ params.minReputation # Undefined =>
       row.reputation >= params.minReputation.v

Perms(S) ==
  {q \in [1..Cardinality(S) -> S] : \A i, j \in 1..Cardinality(S) : q[i] = q[j] => i = j}

\* ORDER BY reputation DESC: every order of the ids in which the reputation
\* never increases (SQL leaves the order of ties open).
OrderByReputation_Asc(tbl, ids) ==
  {q \in Perms(ids) :
     \A i \in 1..(Len(q) - 1) : tbl[q[i]].reputation <= tbl[q[i + 1]].reputation}

OrderByReputationDesc(tbl, ids) ==
  {q \in Perms(ids) :
     \A i \in 1..(Len(q) - 1) : tbl[q[i]].reputation >= tbl[q[i + 1]].reputation}

\* LIMIT ?, appended only when params.limit is truthy.
ApplyLimit_WhenDefined(q, limit) ==
  IF limit.t \in {"undefined", "null"} THEN q ELSE SubSeq(q, 1, Min(limit.v, Len(q)))

ApplyLimit(q, limit) ==
  IF Falsy(limit) THEN q ELSE SubSeq(q, 1, Min(limit.v, Len(q)))

\* The lists searchAgents may return.
searchAgentsValues(tbl, params) ==
  LET ids == {id \in DOMAIN tbl : Where(tbl[id], params)}
  IN  { [i \in 1..Len(l) |-> ParseRow(tbl[l[i]])] :
          l \in {ApplyLimit(q, params.limit) : q \in OrderByReputationDesc(tbl, ids)} }

searchAgents(params) ==
  /\ ret = NoCall
  /\ \E rows \in searchAgentsValues(agents, params) :
       ret' = [op |-> "searchAgents", params |-> params, value |-> rows]
  /\ UNCHANGED <<agents, sync_state, now, graphApiKey, timer, calls, ncalls>>

getTopAgentsValues_NoLimit(tbl, limit) ==
  searchAgentsValues(tbl, [capability |-> Undefined, minReputation |-> Undefined,
                           limit |-> Undefined])

\* getTopAgents(limit: number = 10): the default stands in for undefined
\* only.
getTopAgentsValues(tbl, limit) ==
  searchAgentsValues(tbl, [capability |-> Undefined, minReputation |-> Undefined,
                           limit |-> IF limit = Undefined THEN Num(DefaultLimit)
                                     ELSE limit])

getTopAgents(limit) ==
  /\ ret = NoCall
  /\ \E rows \in getTopAgentsValues(agents, limit) :
       ret' = [op |-> "getTopAgents", limit |-> limit, value |-> rows]
  /\ UNCHANGED <<agents, sync_state, now, graphApiKey, timer, calls, ncalls>>

getAgentCountValue(tbl) == Cardinality(DOMAIN tbl)

getAgentCount ==
  /\ ret = NoCall
  /\ ret' = [op |-> "getAgentCount", value |-> getAgentCountValue(agents)]
  /\ UNCHANGED <<agents, sync_state, now, graphApiKey, timer, calls, ncalls>>

getSyncStateValue(ss, key) ==
  IF key \in DOMAIN ss THEN Str(ss[key]) ELSE Undefined

isCacheStaleValue_AtTtl(ss, t, network, ttlMs) ==
  LET lastSync == getSyncStateValue(ss, "lastSyncTime_" \o network)
  IN  IF Falsy(lastSync) THEN TRUE
      ELSE LET parsed == parseInt(lastSync.v)
           IN  parsed # NaN /\ (t - parsed) >= ttlMs

isCacheStaleValue(ss, t, network, ttlMs) ==
  LET lastSync == getSyncStateValue(ss, "lastSyncTime_" \o network)
  IN  IF Falsy(lastSync) THEN TRUE
      ELSE LET parsed == parseInt(lastSync.v)
           IN  parsed # NaN /\ (t - parsed) > ttlMs

isCacheStale(network, ttlMs) ==
  /\ ret = NoCall
  /\ ret' = [op |-> "isCacheStale", network |-> network, ttlMs |-> ttlMs,
             at |-> now,
             value |-> isCacheStaleValue(sync_state, now, network, ttlMs)]
  /\ UNCHANGED <<agents, sync_state, now, graphApiKey, timer, calls, ncalls>>

\* INSERT OR REPLACE INTO sync_state (key, value)
SetSyncState_Truncating(ss, key, value) ==
  [k \in {key} |-> value]

SetSyncState(ss, key, value) ==
  [k \in (DOMAIN ss) \cup {key} |-> IF k = key THEN value ELSE ss[k]]

setSyncState(key, value) ==
  /\ ret = NoCall
  /\ sync_state' = SetSyncState(sync_state, key, value)
  /\ ret' = [op |-> "setSyncState", key |-> key, value |-> value]
  /\ UNCHANGED <<agents, now, graphApiKey, timer, calls, ncalls>>

getSyncState(key) ==
  /\ ret = NoCall
  /\ ret' = [op |-> "getSyncState", key |-> key,
             value |-> getSyncStateValue(sync_state, key)]
  /\ UNCHANGED <<agents, sync_state, now, graphApiKey, timer, calls, ncalls>>

\* The caller has received the value of its call and goes on.
Continue ==
  /\ ret # NoCall
  /\ ret' = NoCall
  /\ UNCHANGED <<agents, sync_state, now, graphApiKey, timer, calls, ncalls>>

\* Time passes.
Tick ==
  /\ now < StartTime + MaxTicks
  /\ now' = now + 1
  /\ UNCHANGED <<agents, sync_state, ret, graphApiKey, timer, calls, ncalls>>

(***************************************************************************)
(* The Graph source (core/discovery/graph.ts): payloads and ingestion.     *)
(***************************************************************************)

\* String.prototype.toLowerCase
toLowerCase(text) == [i \in 1..Len(text) |-> toLowerChar(text[i])]

\* [...new Set(caps)]: the first occurrence of every tag, in order.
RECURSIVE Dedup(_, _)
Dedup(caps, acc) ==
  IF caps = <<>> THEN acc
  ELSE IF \E i \in 1..Len(acc) : acc[i] = Head(caps)
       THEN Dedup(Tail(caps), acc)
       ELSE Dedup(Tail(caps), Append(acc, Head(caps)))

\* The tags `prefix + item` for the items of a list, or none when the list
\* is absent or empty (reg.mcpTools?.length).
Prefixed(prefix, list) ==
  IF list.t = "array" THEN [i \in 1..Len(list.v) |-> prefix \o list.v[i].v]
  ELSE IF list.t = "string" THEN [i \in 1..Len(list.v) |-> prefix \o <<list.v[i]>>]
  ELSE <<>>

\* `for (const t of list) caps.push(t.toLowerCase())` throws when the list
\* is truthy and cannot be iterated, or an entry has no toLowerCase.  (A
\* string is iterated character by character.)
LowerAllThrows(list) ==
  /\ ~Falsy(list)
  /\ \/ list.t \notin {"array", "string"}
     \/ list.t = "array" /\ \E i \in 1..Len(list.v) : list.v[i].t # "string"

LowerAll(list) ==
  IF Falsy(list) THEN <<>>
  ELSE IF list.t = "string" THEN [i \in 1..Len(list.v) |-> toLowerCase(<<list.v[i]>>)]
  ELSE [i \in 1..Len(list.v) |-> toLowerCase(list.v[i].v)]

\* A registration file without any field: agent.registrationFile || {}.
EmptyReg ==
  [ name |-> Undefined, description |-> Undefined, image |-> Undefined,
    x402Support |-> Undefined, supportedTrusts |-> Undefined,
    mcpEndpoint |-> Undefined, a2aEndpoint |-> Undefined,
    webEndpoint |-> Undefined, oasfEndpoint |-> Undefined,
    emailEndpoint |-> Undefined, hasOASF |-> Undefined,
    mcpTools |-> Undefined, a2aSkills |-> Undefined, oasfSkills |-> Undefined ]

\* extractCapabilities(agent, reg) of graph.ts, and when it throws.
GraphExtractThrows(reg) == LowerAllThrows(reg.supportedTrusts)

GraphExtractCapabilities_Pushed(reg) ==
  LET trusts == LowerAll(reg.supportedTrusts)
      flag(v, tag) == IF Falsy(v) THEN <<>> ELSE <<tag>>
  IN  trusts
      \o flag(reg.x402Support, TagX402)
      \o flag(reg.mcpEndpoint, TagMcp)
      \o flag(reg.a2aEndpoint, TagA2a)
      \o flag(reg.webEndpoint, TagWeb)
      \o flag(reg.hasOASF, <<"o", "a", "s", "f">>)
      \o flag(reg.emailEndpoint, <<"e", "m", "a", "i", "l">>)
      \o Prefixed(<<"m", "c", "p", ":">>, reg.mcpTools)
      \o Prefixed(<<"a", "2", "a", ":">>, reg.a2aSkills)
      \o Prefixed(<<"o", "a", "s", "f", ":">>, reg.oasfSkills)

GraphExtractCapabilities(reg) ==
  LET trusts == LowerAll(reg.supportedTrusts)
      flag(v, tag) == IF Falsy(v) THEN <<>> ELSE <<tag>>
  IN  Dedup(trusts
            \o flag(reg.x402Support, TagX402)
            \o flag(reg.mcpEndpoint, TagMcp)
            \o flag(reg.a2aEndpoint, TagA2a)
            \o flag(reg.webEndpoint, TagWeb)
            \o flag(reg.hasOASF, <<"o", "a", "s", "f">>)
            \o flag(reg.emailEndpoint, <<"e", "m", "a", "i", "l">>)
            \o Prefixed(<<"m", "c", "p", ":">>, reg.mcpTools)
            \o Prefixed(<<"a", "2", "a", ":">>, reg.a2aSkills)
            \o Prefixed(<<"o", "a", "s", "f", ":">>, reg.oasfSkills),
            <<>>)

\* parseInt(x) || 0
ParseIntOrZero(v) ==
  IF v.t # "string" THEN 0
  ELSE LET n == parseInt(v.v) IN IF n = NaN THEN 0 ELSE n

\* The quality filter of the curated mode: some service endpoint is set.
HasEndpoint_Any(reg) == TRUE

HasEndpoint(reg) ==
  ~Falsy(Or(reg.mcpEndpoint, Or(reg.a2aEndpoint, Or(reg.webEndpoint,
        Or(reg.oasfEndpoint, reg.emailEndpoint)))))

\* The metadata object syncFromGraph hands to indexAgent.
GraphMetadata(agent, reg) ==
  [ name           |-> Or(reg.name, Null),
    description    |-> Or(reg.description, Null),
    capabilities   |-> Arr(GraphExtractCapabilities(reg)),
    agentURI       |-> Or(agent.agentURI, Str(<<>>)),
    paymentAddress |-> Or(agent.agentWallet, agent.owner),
    walletAddress  |-> agent.owner,
    endpoints      |-> Obj([http |-> Or(reg.webEndpoint, Null),
                            mcp  |-> Or(reg.mcpEndpoint, Null),
                            a2a  |-> Or(reg.a2aEndpoint, Null),
                            xmtp |-> Or(agent.agentWallet, Null)]) ]

\* The body of `for (const agent of agents)` in syncFromGraph for one agent:
\* the table and the count of indexed agents after it.
GraphIngestOne_CountBad(st, agent, all, t) ==
  LET reg == IF Falsy(agent.registrationFile) THEN EmptyReg
             ELSE agent.registrationFile.v
  IN  IF ~all /\ ~HasEndpoint(reg) THEN st
      ELSE IF GraphExtractThrows(reg) THEN [st EXCEPT !.indexed = st.indexed + 1]
      ELSE [ tbl     |-> InsertOrReplace(st.tbl,
                           BoundValues(parseInt(agent.agentId.v),
                                       GraphMetadata(agent, reg),
                                       ParseIntOrZero(agent.totalFeedback), t)),
             indexed |-> st.indexed + 1 ]

GraphIngestOne(st, agent, all, t) ==
  LET reg == IF Falsy(agent.registrationFile) THEN EmptyReg
             ELSE agent.registrationFile.v
  IN  IF ~all /\ ~HasEndpoint(reg) THEN st
      ELSE IF GraphExtractThrows(reg) THEN st
      ELSE [ tbl     |-> InsertOrReplace(st.tbl,
                           BoundValues(parseInt(agent.agentId.v),
                                       GraphMetadata(agent, reg),
                                       ParseIntOrZero(agent.totalFeedback), t)),
             indexed |-> st.indexed + 1 ]

RECURSIVE GraphIngest(_, _, _, _)
GraphIngest(st, page, all, t) ==
  IF page = <<>> THEN st
  ELSE GraphIngest(GraphIngestOne(st, Head(page), all, t), Tail(page), all, t)

\* Agents as the subgraph returns them.
GraphAgentA ==
  [ agentId |-> Str(<<"1">>), owner |-> Str(<<"0", "x", "o", "1">>),
    agentWallet |-> Str(<<"0", "x", "w", "1">>),
    agentURI |-> Str(<<"i", "p", "f", "s">>), totalFeedback |-> Str(<<"1", "2">>),
    registrationFile |-> Obj([EmptyReg EXCEPT
        !.name = Str(<<"G", "1">>), !.description = Str(<<"g">>),
        !.x402Support = Bool(TRUE), !.mcpEndpoint = Str(<<"m">>),
        !.webEndpoint = Str(<<"h", "g">>),
        !.supportedTrusts = Arr(<<Str(<<"R", "e", "p">>)>>),
        !.mcpTools = Arr(<<Str(<<"t", "1">>), Str(<<"t", "2">>)>>)]) ]

\* No endpoint at all, and no registration file.
GraphAgentB ==
  [ agentId |-> Str(<<"2">>), owner |-> Str(<<"0", "x", "o", "2">>),
    agentWallet |-> Null,
    agentURI |-> Str(<<>>), totalFeedback |-> Str(<<"7">>),
    registrationFile |-> Null ]

GraphAgentC ==
  [ agentId |-> Str(<<"3">>), owner |-> Str(<<"0", "x", "o", "3">>),
    agentWallet |-> Null,
    agentURI |-> Str(<<>>), totalFeedback |-> Str(<<"3">>),
    registrationFile |-> Obj([EmptyReg EXCEPT
        !.name = Str(<<"G", "3">>), !.a2aEndpoint = Str(<<"a">>),
        !.a2aSkills = Arr(<<Str(<<"s">>)>>)]) ]

\* A registration file whose supportedTrusts holds a number: t.toLowerCase
\* is not a function.
GraphAgentD ==
  [ agentId |-> Str(<<"2">>), owner |-> Str(<<"0", "x", "o", "4">>),
    agentWallet |-> Null,
    agentURI |-> Str(<<>>), totalFeedback |-> Str(<<"9">>),
    registrationFile |-> Obj([EmptyReg EXCEPT
        !.name = Str(<<"G", "4">>), !.webEndpoint = Str(<<"h", "d">>),
        !.supportedTrusts = Arr(<<Num(1)>>)]) ]

GraphAgents == {GraphAgentA, GraphAgentB, GraphAgentC, GraphAgentD}

(***************************************************************************)
(* The REST source (8004scan) as core/discovery/sync.ts ingests it.        *)
(***************************************************************************)

\* [...list] pushed onto caps: the entries as they are.
Spread(list) ==
  IF Falsy(list) THEN <<>>
  ELSE IF list.t = "string" THEN [i \in 1..Len(list.v) |-> <<list.v[i]>>]
  ELSE [i \in 1..Len(list.v) |-> list.v[i].v]

\* caps.push(...list) throws when the list is truthy and cannot be iterated.
SpreadThrows(list) == ~Falsy(list) /\ list.t \notin {"array", "string"}

\* extractCapabilities(agent) of sync.ts, and when it throws.
RestExtractThrows(agent) ==
  \/ LowerAllThrows(agent.supported_protocols)
  \/ SpreadThrows(agent.tags)
  \/ SpreadThrows(agent.categories)

RestExtractCapabilities(agent) ==
  LET protocols == LowerAll(agent.supported_protocols)
      flag(v, tag) == IF Falsy(v) THEN <<>> ELSE <<tag>>
  IN  Dedup(protocols
            \o flag(agent.x402_supported, TagX402)
            \o flag(OptGet(agent.services, "mcp"),
                    <<"m", "c", "p", "-", "s", "e", "r", "v", "e", "r">>)
            \o flag(OptGet(agent.services, "a2a"), TagA2a)
            \o Spread(agent.tags)
            \o Spread(agent.categories),
            <<>>)

\* The metadata object syncFromAPI hands to indexAgent.
RestMetadata(agent) ==
  [ name           |-> Or(agent.name, Null),
    description    |-> Or(agent.description, Null),
    capabilities   |-> Arr(RestExtractCapabilities(agent)),
    agentURI       |-> Str(<<>>),
    paymentAddress |-> Or(agent.agent_wallet, agent.owner_address),
    walletAddress  |-> agent.owner_address,
    endpoints      |-> Obj([http |-> Or(OptGet(OptGet(agent.endpoints, "web"), "endpoint"),
                                     Or(OptGet(OptGet(agent.services, "web"), "endpoint"),
                                        Null)),
                            xmtp |-> Or(agent.agent_wallet, Null)]) ]

\* The body of `for (const agent of page.items)` in syncFromAPI.
RestIngestOne_Rebuild(st, agent, t) ==
  IF RestExtractThrows(agent) THEN st
  ELSE [ tbl     |-> InsertOrReplace(
                       [id \in {i \in DOMAIN st.tbl : i < agent.token_id.v} |-> st.tbl[id]],
                       BoundValues(agent.token_id.v, RestMetadata(agent),
                                   Or(agent.total_score, Num(0)).v, t)),
         indexed |-> st.indexed + 1 ]

RestIngestOne(st, agent, t) ==
  IF RestExtractThrows(agent) THEN st
  ELSE [ tbl     |-> InsertOrReplace(st.tbl,
                       BoundValues(agent.token_id.v, RestMetadata(agent),
                                   Or(agent.total_score, Num(0)).v, t)),
         indexed |-> st.indexed + 1 ]

RECURSIVE RestIngest(_, _, _)
RestIngest(st, items, t) ==
  IF items = <<>> THEN st
  ELSE RestIngest(RestIngestOne(st, Head(items), t), Tail(items), t)

\* Agents as 8004scan returns them.
NoService == [web |-> Undefined, mcp |-> Undefined, a2a |-> Undefined]

RestAgentA ==
  [ token_id |-> Num(1), name |-> Str(<<"R", "1">>), description |-> Str(<<"r">>),
    agent_wallet |-> Str(<<"0", "x", "w", "1">>),
    owner_address |-> Str(<<"0", "x", "o", "1">>),
    endpoints |-> Obj([NoService EXCEPT !.web = Obj([endpoint |-> Str(<<"h", "r">>)])]),
    services |-> Undefined,
    x402_supported |-> Bool(TRUE),
    supported_protocols |-> Arr(<<Str(<<"M", "C", "P">>)>>),
    tags |-> Arr(<<Str(<<"D", "e", "F", "i">>)>>), categories |-> Undefined,
    total_score |-> Num(2) ]

RestAgentB ==
  [ token_id |-> Num(2), name |-> Null, description |-> Null,
    agent_wallet |-> Null,
    owner_address |-> Str(<<"0", "x", "o", "2">>),
    endpoints |-> Undefined,
    services |-> Obj([NoService EXCEPT !.mcp = Obj([endpoint |-> Str(<<"m", "r">>)])]),
    x402_supported |-> Bool(FALSE),
    supported_protocols |-> Undefined,
    tags |-> Undefined, categories |-> Arr(<<Str(TagA2a)>>),
    total_score |-> Undefined ]

RestAgentC ==
  [ token_id |-> Num(3), name |-> Str(<<"R", "3">>), description |-> Null,
    agent_wallet |-> Null,
    owner_address |-> Str(<<"0", "x", "o", "3">>),
    endpoints |-> Undefined, services |-> Undefined,
    x402_supported |-> Undefined,
    supported_protocols |-> Undefined,
    tags |-> Undefined, categories |-> Undefined,
    total_score |-> Num(1) ]

\* supported_protocols holds a number: p.toLowerCase is not a function.
RestAgentD ==
  [ token_id |-> Num(2), name |-> Str(<<"R", "4">>), description |-> Null,
    agent_wallet |-> Null,
    owner_address |-> Str(<<"0", "x", "o", "4">>),
    endpoints |-> Undefined, services |-> Undefined,
    x402_supported |-> Undefined,
    supported_protocols |-> Arr(<<Num(1)>>),
    tags |-> Undefined, categories |-> Undefined,
    total_score |-> Num(2) ]

RestAgents == {RestAgentA, RestAgentB, RestAgentC, RestAgentD}

(***************************************************************************)
(* The orchestrator (core/discovery/sync.ts): smartSync, refreshCache,     *)
(* syncFromAPI with fetchAgents, and syncFromGraph of graph.ts.  A call    *)
(* runs between awaits in one step; every awaited reply is an action.      *)
(***************************************************************************)

\* What a source may hold: the first n agents of its list, n <= MaxRemote.
Prefixes(list) == {SubSeq(list, 1, n) : n \in 0..Min(MaxRemote, Len(list))}

GraphDatasets == Prefixes(<<GraphAgentA, GraphAgentB, GraphAgentC>>)
RestDatasets  == Prefixes(<<RestAgentA, RestAgentB, RestAgentC>>)

\* What a source studied on its own may serve: up to MaxListed agents, a
\* malformed one among them.
Listings(lists) ==
  UNION {{SubSeq(l, 1, n) : n \in 0..Min(MaxListed, Len(l))} : l \in lists}

GraphListings == Listings({<<GraphAgentA, GraphAgentB, GraphAgentC>>,
                           <<GraphAgentD, GraphAgentA, GraphAgentC>>})
RestListings  == Listings({<<RestAgentA, RestAgentB, RestAgentC>>,
                           <<RestAgentD, RestAgentA, RestAgentC>>})

\* The page a source serves: `limit` entries after the first `skip`.
PageOf(data, skip, limit) ==
  IF skip >= Len(data) THEN <<>> ELSE SubSeq(data, skip + 1, Min(skip + limit, Len(data)))

\* fetchAgents: attempts per page, and the first backoff delay in ms.
MaxAttempts  == 5
InitialDelay == 1000

TextTheGraph == <<"t", "h", "e", "g", "r", "a", "p", "h">>

\* The statuses 8004scan answers with, and response.ok.
Statuses      == {200, 404, 429, 500}
StatusesBasic == {200, 429}
Ok(status) == status \in 200..299

\* What a call throws: a rejected fetch, `8004scan API error: ${status}`, or
\* `8004scan API rate-limited after 5 retries`.
NoError              == [kind |-> "none", status |-> 0]
FetchRejected        == [kind |-> "fetch", status |-> 0]
ApiError(status)     == [kind |-> "status", status |-> status]
RateLimited          == [kind |-> "rate_limited", status |-> 0]
\* graphQuery throws (`Graph API error`, `GraphQL error`, a rejected fetch),
\* and the TypeError of extractCapabilities outside a try block.
GraphError           == [kind |-> "graph", status |-> 0]
TypeError            == [kind |-> "type", status |-> 0]
\* `The database connection is not open`: a statement on a closed indexer.
NotOpen              == [kind |-> "not_open", status |-> 0]

\* The total a first page may report for the data the source serves: the
\* number of its agents, none, or more than it serves.
RestTotals(data, honest) ==
  IF honest THEN {Len(data)} ELSE {0, Len(data), pageSize + 1}

Frame0 ==
  [ fn |-> "none",          \* the exported function called
    network |-> "mainnet", ttlMs |-> 0, all |-> FALSE, agentId |-> 0,
    pc |-> "idle",          \* idle, graph_stats, graph_page, rest_fetch,
                            \* rest_backoff, done
    graph |-> "no",         \* syncFromGraph: no, running, returned, threw
    rest |-> "no",          \* syncFromAPI:   no, running, returned, threw
    gdata |-> <<>>, rdata |-> <<>>,
    totalRegistered |-> 0, skip |-> 0, indexed |-> 0,
    offset |-> 0, total |-> 0, attempt |-> 0, delay |-> 0,
    fetches |-> 0,          \* fetchAgents: requests sent for the current page
    waits |-> <<>>,         \* fetchAgents: the delays slept, in order
    status |-> 0,           \* fetchAgents: status of the last response, if any
    reqs |-> <<>>,          \* the queries and pages requested, in order
    gpages |-> <<>>,        \* syncFromGraph: length of every page received
    rpages |-> <<>>,        \* syncFromAPI: length of every page received
    outcome |-> "none",     \* none, return, throw
    error |-> NoError,      \* the error thrown, when outcome is throw
    chain |-> "no",         \* syncFromChain: no, running, returned, threw
    fromBlock |-> Undefined, \* syncFromChain: opts?.fromBlock
    lastSynced |-> 0, currentBlock |-> 0, from |-> 0, to |-> 0, f2 |-> 0,
    events |-> <<>>,        \* syncFromChain: the mint events collected
    ev |-> 0,               \* syncFromChain: the event being indexed
    agentURI |-> <<>>,      \* syncFromChain: the tokenURI of that event
    creqs |-> <<>>,         \* syncFromChain: the RPC calls and fetches sent
    count0 |-> 0,           \* read command: getAgentCount() at its start
    refresh |-> FALSE,      \* read command: --refresh
    report |-> "none",      \* read command: none, failed, results
    shown |-> <<>>,         \* read command: the records printed
    post |-> <<>>,          \* read command: the table the records were read from
    closed |-> FALSE,       \* the indexer was closed while the call was in flight
    value |-> [count |-> 0],
    startedAt |-> 0, doneAt |-> 0,
    pre |-> [agents |-> <<>>, sync_state |-> <<>>] ]

\* const graphNetwork = network === 'mainnet' ? 'base' : 'base'
GraphNetworkOf(network) == IF network = "mainnet" THEN "base" ELSE "base"

\* The value the exported function returns for the count its sync returned.
ReturnValue_StoreCount(f, count) ==
  IF f.fn = "refreshCache"
  THEN [synced |-> TRUE, count |-> getAgentCountValue(f.pre.agents)]
  ELSE [count |-> count]

ReturnValue(f, count) ==
  IF f.fn = "refreshCache" THEN [synced |-> TRUE, count |-> count]
  ELSE [count |-> count]

\* The read commands of the CLI, `anet find` and `anet search`.
Commands == {"find", "search"}

\* The call returns.  In a read command the awaited smartSync has returned
\* and the command goes on to its search.
Returned(f, count, t) ==
  IF f.fn \in Commands
  THEN [f EXCEPT !.pc = "cmd_search", !.value = [count |-> count]]
  ELSE [f EXCEPT !.pc = "done", !.outcome = "return", !.value = ReturnValue(f, count),
                 !.doneAt = t]

\* SYNC_CONFIG of syncFromChain: the testnet registry starts at a lower
\* block (37_700_000) than the mainnet registry.
SYNC_CONFIG(network) ==
  [startBlock |-> IF network = "mainnet" THEN startBlock ELSE startBlock - 1]

\* syncFromChain up to its first awaited RPC call: the block it resumes
\* from is read from SyncState, then the head is asked for.
BeginSyncFromChain_FromGenesis(f) ==
  [f EXCEPT !.pc = "chain_head", !.chain = "running", !.indexed = 0,
            !.lastSynced = SYNC_CONFIG(f.network).startBlock,
            !.creqs = Append(@, [q |-> "head"])]

BeginSyncFromChain(f) ==
  LET stored == getSyncStateValue(sync_state, "lastBlock_" \o f.network)
  IN  [f EXCEPT !.pc = "chain_head", !.chain = "running", !.indexed = 0,
                !.lastSynced = Coalesce(f.fromBlock,
                   Num(parseInt(Or(stored,
                      Str(toString(SYNC_CONFIG(f.network).startBlock))).v))).v,
                !.creqs = Append(@, [q |-> "head"])]

\* The throw of smartSync is caught, and syncFromChain called, by the timer
\* callback of startPeriodicSync and by its initial sync only.  (The
\* comment of smartSync reads "falls back to 8004scan API, then RPC".)
CatchesSmartSync_Always(f) == f.chain = "no"

CatchesSmartSync(f) == f.fn \in {"tick", "initial"} /\ f.chain = "no"

\* The catch block of a read command around its smartSync: with an empty
\* cache the failure is printed and the command returns, otherwise it goes
\* on to its search ("Refresh failed, using cached data.").
CommandCaught(f, err, t) ==
  IF f.count0 = 0
  THEN [f EXCEPT !.pc = "done", !.outcome = "return", !.report = "failed",
                 !.error = err, !.doneAt = t]
  ELSE [f EXCEPT !.pc = "cmd_search", !.error = err]

\* The call throws.
Thrown_NoFallback(f, err, t) ==
  [f EXCEPT !.pc = "done", !.outcome = "throw", !.error = err, !.doneAt = t]

Thrown(f, err, t) ==
  IF CatchesSmartSync(f)
  THEN BeginSyncFromChain([f EXCEPT !.error = err])
  ELSE IF f.fn \in Commands
  THEN CommandCaught(f, err, t)
  ELSE [f EXCEPT !.pc = "done", !.outcome = "throw", !.error = err, !.doneAt = t]

\* syncFromAPI up to its first await: the request for the first page.
BeginSyncFromAPI(f) ==
  [f EXCEPT !.pc = "rest_fetch", !.rest = "running",
            !.offset = 0, !.total = 0, !.indexed = 0,
            !.attempt = 0, !.delay = InitialDelay,
            !.fetches = 1, !.waits = <<>>,
            !.reqs = Append(@, [src |-> "rest", offset |-> 0])]

\* syncFromGraph up to its first await: the stats query.
BeginSyncFromGraph(f) ==
  [f EXCEPT !.pc = "graph_stats", !.graph = "running",
            !.skip = 0, !.indexed = 0,
            !.reqs = Append(@, [src |-> "graph", q |-> "stats"])]

BeginSmartSync_RestFirst(f, key) == BeginSyncFromAPI(f)

\* smartSync up to its first await.
BeginSmartSync(f, key) ==
  IF ~Falsy(key) THEN BeginSyncFromGraph(f) ELSE BeginSyncFromAPI(f)

\* The catch block of smartSync: the Graph sync threw, go on with 8004scan.
GraphFailed(f) == BeginSyncFromAPI([f EXCEPT !.graph = "threw"])

\* The five setSyncState calls that end syncFromGraph.
GraphSyncState_Accumulating(ss, network, totalRegistered, indexed, all, t) ==
  LET old == getSyncStateValue(ss, "indexed_" \o network)
      sum == IF Falsy(old) THEN indexed ELSE parseInt(old.v) + indexed
      s1  == SetSyncState(ss, "lastSyncTime_" \o network, toString(t))
      s2  == SetSyncState(s1, "total_" \o network, toString(totalRegistered))
      s3  == SetSyncState(s2, "indexed_" \o network, toString(sum))
      s4  == SetSyncState(s3, "source_" \o network, TextTheGraph)
  IN  SetSyncState(s4, "minFeedback_" \o network, toString(IF all THEN 0 ELSE 3))

GraphSyncState(ss, network, totalRegistered, indexed, all, t) ==
  LET s1 == SetSyncState(ss, "lastSyncTime_" \o network, toString(t))
      s2 == SetSyncState(s1, "total_" \o network, toString(totalRegistered))
      s3 == SetSyncState(s2, "indexed_" \o network, toString(indexed))
      s4 == SetSyncState(s3, "source_" \o network, TextTheGraph)
  IN  SetSyncState(s4, "minFeedback_" \o network, toString(IF all THEN 0 ELSE 3))

\* The two setSyncState calls that end syncFromAPI.
RestSyncState(ss, network, total, t) ==
  SetSyncState(SetSyncState(ss, "lastSyncTime_" \o network, toString(t)),
               "total_" \o network, toString(total))

\* The callers that may exist, and those that do.
Callers == {1, 2}
Active  == DOMAIN calls

\* syncFromAPI called on its own (scripts/full-sync.ts, `anet sync`).
syncFromAPI(p, network) ==
  /\ p \in Active
  /\ calls[p].pc \in {"idle", "done"}
  /\ ncalls < MaxCalls
  /\ ncalls' = ncalls + 1
  /\ calls' = [calls EXCEPT ![p] =
       BeginSyncFromAPI([Frame0 EXCEPT !.fn = "syncFromAPI", !.network = network,
                                       !.startedAt = now,
                                       !.pre = [agents |-> agents,
                                                sync_state |-> sync_state]])]
  /\ UNCHANGED <<agents, sync_state, now, ret, graphApiKey, timer>>

smartSync(p, network, all) ==
  /\ p \in Active
  /\ calls[p].pc \in {"idle", "done"}
  /\ ncalls < MaxCalls
  /\ ncalls' = ncalls + 1
  /\ calls' = [calls EXCEPT ![p] =
       BeginSmartSync([Frame0 EXCEPT !.fn = "smartSync", !.network = network,
                                     !.all = all, !.startedAt = now,
                                     !.pre = [agents |-> agents,
                                              sync_state |-> sync_state]],
                      graphApiKey)]
  /\ UNCHANGED <<agents, sync_state, now, ret, graphApiKey, timer>>

refreshCache_NoGate(p, network, ttlMs) ==
  /\ p \in Active
  /\ calls[p].pc \in {"idle", "done"}
  /\ ncalls < MaxCalls
  /\ ncalls' = ncalls + 1
  /\ calls' = [calls EXCEPT ![p] =
       BeginSmartSync([Frame0 EXCEPT !.fn = "refreshCache", !.network = network,
                                     !.ttlMs = ttlMs, !.startedAt = now,
                                     !.pre = [agents |-> agents,
                                              sync_state |-> sync_state]],
                      graphApiKey)]
  /\ UNCHANGED <<agents, sync_state, now, ret, graphApiKey, timer>>

refreshCache(p, network, ttlMs) ==
  /\ p \in Active
  /\ calls[p].pc \in {"idle", "done"}
  /\ ncalls < MaxCalls
  /\ ncalls' = ncalls + 1
  /\ LET f == [Frame0 EXCEPT !.fn = "refreshCache", !.network = network,
                             !.ttlMs = ttlMs, !.startedAt = now,
                             !.pre = [agents |-> agents, sync_state |-> sync_state]]
     IN  calls' = [calls EXCEPT ![p] =
           IF ~isCacheStaleValue(sync_state, now, network, ttlMs)
           THEN [f EXCEPT !.pc = "done", !.outcome = "return",
                          !.value = [synced |-> FALSE,
                                     count |-> getAgentCountValue(agents)],
                          !.doneAt = now]
           ELSE BeginSmartSync(f, graphApiKey)]
  /\ UNCHANGED <<agents, sync_state, now, ret, graphApiKey, timer>>

\* syncFromChain called on its own (`anet sync --rpc`), with or without
\* the fromBlock option.
syncFromChain(p, network, fromBlock) ==
  /\ p \in Active
  /\ calls[p].pc \in {"idle", "done"}
  /\ ncalls < MaxCalls
  /\ ncalls' = ncalls + 1
  /\ calls' = [calls EXCEPT ![p] =
       BeginSyncFromChain([Frame0 EXCEPT !.fn = "syncFromChain", !.network = network,
                                         !.fromBlock = fromBlock,
                                         !.startedAt = now,
                                         !.pre = [agents |-> agents,
                                                  sync_state |-> sync_state]])]
  /\ UNCHANGED <<agents, sync_state, now, ret, graphApiKey, timer>>

\* The stats query is answered, or fails.
GraphStatsReply(p, datasets) ==
  /\ p \in Active
  /\ calls[p].pc = "graph_stats"
  /\ \/ calls' = [calls EXCEPT ![p] = GraphFailed(@)]
     \/ \E data \in datasets :
          calls' = [calls EXCEPT ![p] =
            [@ EXCEPT !.gdata = data, !.totalRegistered = Len(data),
                      !.pc = "graph_page",
                      !.reqs = Append(@, [src |-> "graph", q |-> "agents",
                                          skip |-> 0])]]
  /\ UNCHANGED <<agents, sync_state, now, ret, graphApiKey, timer, ncalls>>

\* The page loop of syncFromGraph goes on after a page that is neither
\* empty nor shorter than PAGE_SIZE.
MorePages_UntilEmpty(page) == Len(page) # 0

MorePages(page) == Len(page) # 0 /\ ~(Len(page) < PAGE_SIZE)

\* A page query is answered, or fails.  On an indexer that has been closed
\* every indexAgent throws inside the try block of its agent, and the first
\* setSyncState after the loop throws out of syncFromGraph.
GraphPageReply(p) ==
  LET f    == calls[p]
      page == PageOf(f.gdata, f.skip, PAGE_SIZE)
      st   == IF f.closed
              THEN [tbl |-> agents, indexed |-> f.indexed]
              ELSE GraphIngest([tbl |-> agents, indexed |-> f.indexed], page, f.all, now)
      more == MorePages(page)
  IN  /\ p \in Active
      /\ f.pc = "graph_page"
      /\ \/ /\ calls' = [calls EXCEPT ![p] = GraphFailed(f)]
            /\ UNCHANGED <<agents, sync_state>>
         \/ /\ agents' = st.tbl
            /\ IF more
               THEN /\ calls' = [calls EXCEPT ![p] =
                         [f EXCEPT !.indexed = st.indexed,
                                   !.skip = f.skip + Len(page),
                                   !.gpages = Append(@, Len(page)),
                                   !.reqs = Append(@, [src |-> "graph", q |-> "agents",
                                                       skip |-> f.skip + Len(page)])]]
                    /\ UNCHANGED sync_state
               ELSE IF f.closed
               THEN /\ calls' = [calls EXCEPT ![p] =
                         GraphFailed([f EXCEPT !.skip = f.skip + Len(page),
                                               !.gpages = Append(@, Len(page))])]
                    /\ UNCHANGED sync_state
               ELSE /\ sync_state' = GraphSyncState(sync_state, GraphNetworkOf(f.network),
                                                    f.totalRegistered, st.indexed, f.all, now)
                    /\ calls' = [calls EXCEPT ![p] =
                         Returned([f EXCEPT !.indexed = st.indexed,
                                            !.skip = f.skip + Len(page),
                                            !.gpages = Append(@, Len(page)),
                                            !.graph = "returned"],
                                  st.indexed, now)]
      /\ UNCHANGED <<now, ret, graphApiKey, timer, ncalls>>

\* fetchAgents on a response that is not ok: a 429 starts the backoff
\* timer, any other status throws.
NotOk_Retry(f, status, t) ==
  [f EXCEPT !.pc = "rest_backoff", !.status = status,
            !.waits = Append(@, f.delay)]

NotOk(f, status, t) ==
  IF status = 429
  THEN [f EXCEPT !.pc = "rest_backoff", !.status = status,
                 !.waits = Append(@, f.delay)]
  ELSE Thrown([f EXCEPT !.status = status, !.rest = "threw"], ApiError(status), t)

\* A request of fetchAgents is answered: the fetch (or reading its body)
\* rejects, or the status is not ok, or it is ok with the page as JSON.
\* On an indexer that has been closed no agent is stored and setSyncState
\* throws out of syncFromAPI.
RestReply(p, statuses, datasets, honest) ==
  LET f == calls[p]
  IN  /\ p \in Active
      /\ f.pc = "rest_fetch"
      /\ \/ /\ calls' = [calls EXCEPT ![p] =
                 Thrown([f EXCEPT !.status = 0, !.rest = "threw"], FetchRejected, now)]
            /\ UNCHANGED <<agents, sync_state>>
         \/ /\ \E status \in {s \in statuses : ~Ok(s)} :
                 calls' = [calls EXCEPT ![p] = NotOk(f, status, now)]
            /\ UNCHANGED <<agents, sync_state>>
         \/ \E status \in {s \in statuses : Ok(s)} :
            \E data \in (IF f.offset = 0 THEN datasets ELSE {f.rdata}) :
            \E total \in (IF f.offset = 0 THEN RestTotals(data, honest) ELSE {f.total}) :
              LET items == PageOf(data, f.offset, pageSize)
                  st    == IF f.closed
                           THEN [tbl |-> agents, indexed |-> f.indexed]
                           ELSE RestIngest([tbl |-> agents, indexed |-> f.indexed],
                                           items, now)
                  g     == [f EXCEPT !.rdata = data, !.total = total, !.status = status,
                                     !.attempt = 0, !.delay = 0,
                                     !.fetches = 0, !.waits = <<>>]
              IN  IF total = 0
                  THEN /\ calls' = [calls EXCEPT ![p] =
                            Returned([g EXCEPT !.rest = "returned"], 0, now)]
                       /\ UNCHANGED <<agents, sync_state>>
                  ELSE /\ agents' = st.tbl
                       /\ IF f.offset + pageSize < total
                          THEN /\ calls' = [calls EXCEPT ![p] =
                                    [g EXCEPT !.indexed = st.indexed,
                                              !.offset = f.offset + pageSize,
                                              !.attempt = 0, !.delay = InitialDelay,
                                              !.fetches = 1,
                                              !.rpages = Append(@, Len(items)),
                                              !.reqs = Append(@,
                                                 [src |-> "rest",
                                                  offset |-> f.offset + pageSize])]]
                               /\ UNCHANGED sync_state
                          ELSE IF f.closed
                          THEN /\ calls' = [calls EXCEPT ![p] =
                                    Thrown([g EXCEPT !.offset = f.offset + pageSize,
                                                     !.rpages = Append(@, Len(items)),
                                                     !.rest = "threw"],
                                           NotOpen, now)]
                               /\ UNCHANGED sync_state
                          ELSE /\ sync_state' = RestSyncState(sync_state, f.network,
                                                              total, now)
                               /\ calls' = [calls EXCEPT ![p] =
                                    Returned([g EXCEPT !.indexed = st.indexed,
                                                       !.offset = f.offset + pageSize,
                                                       !.rpages = Append(@, Len(items)),
                                                       !.rest = "returned"],
                                             st.indexed, now)]
      /\ UNCHANGED <<now, ret, graphApiKey, timer, ncalls>>

\* The backoff timer of fetchAgents has fired: delay *= 2 and the next turn
\* of the loop, which sends the next request or, after the last attempt,
\* throws.
BackoffDone_OneMore(f, t) ==
  LET g == [f EXCEPT !.delay = f.delay * 2, !.attempt = f.attempt + 1]
  IN  IF g.attempt <= MaxAttempts
      THEN [g EXCEPT !.pc = "rest_fetch", !.fetches = f.fetches + 1]
      ELSE Thrown([g EXCEPT !.rest = "threw"], RateLimited, t)

BackoffDone(f, t) ==
  LET g == [f EXCEPT !.delay = f.delay * 2, !.attempt = f.attempt + 1]
  IN  IF g.attempt < MaxAttempts
      THEN [g EXCEPT !.pc = "rest_fetch", !.fetches = f.fetches + 1]
      ELSE Thrown([g EXCEPT !.rest = "threw"], RateLimited, t)

RestBackoffDone(p) ==
  /\ p \in Active
  /\ calls[p].pc = "rest_backoff"
  /\ calls' = [calls EXCEPT ![p] = BackoffDone(calls[p], now)]
  /\ UNCHANGED <<agents, sync_state, now, ret, graphApiKey, timer, ncalls>>

(***************************************************************************)
(* lookupAgentById of sync.ts and lookupAgent of graph.ts.                 *)
(***************************************************************************)

\* CHAIN_IDS of sync.ts.
CHAIN_IDS(network) == IF network = "mainnet" THEN 8453 ELSE 84532

\* const chainId = network === 'base' ? '8453' : '1'
GraphChainId(graphNetwork) ==
  IF graphNetwork = "base" THEN <<"8", "4", "5", "3">> ELSE <<"1">>

\* `${chainId}:${agentId}`
CompositeId(chainId, agentId) == chainId \o <<":">> \o toString(agentId)

\* The object lookupAgent returns for the agent the subgraph has sent.
LookupResult(agent) ==
  LET reg == IF Falsy(agent.registrationFile) THEN EmptyReg
             ELSE agent.registrationFile.v
  IN  [ agent_id        |-> parseInt(agent.agentId.v),
        name            |-> Or(reg.name, Null),
        description     |-> Or(reg.description, Null),
        capabilities    |-> GraphExtractCapabilities(reg),
        wallet_address  |-> agent.owner,
        xmtp_address    |-> Or(agent.agentWallet, Null),
        http_endpoint   |-> Or(reg.webEndpoint, Null),
        mcp_endpoint    |-> Or(reg.mcpEndpoint, Null),
        a2a_endpoint    |-> Or(reg.a2aEndpoint, Null),
        payment_address |-> Or(agent.agentWallet, agent.owner),
        reputation      |-> ParseIntOrZero(agent.totalFeedback),
        x402Support     |-> reg.x402Support,
        supportedTrusts |-> reg.supportedTrusts,
        image           |-> reg.image ]

\* lookupAgentById up to its first await, or to its return.
lookupAgentById(p, agentId, network) ==
  /\ p \in Active
  /\ calls[p].pc \in {"idle", "done"}
  /\ ncalls < MaxCalls
  /\ ncalls' = ncalls + 1
  /\ LET f == [Frame0 EXCEPT !.fn = "lookupAgentById", !.network = network,
                             !.agentId = agentId, !.startedAt = now,
                             !.pre = [agents |-> agents, sync_state |-> sync_state]]
         cached == getAgentValue(agents, agentId)
     IN  calls' = [calls EXCEPT ![p] =
           IF ~Falsy(cached)
           THEN [f EXCEPT !.pc = "done", !.outcome = "return",
                          !.value = [agent |-> cached], !.doneAt = now]
           ELSE IF Falsy(graphApiKey)
           THEN [f EXCEPT !.pc = "done", !.outcome = "return",
                          !.value = [agent |-> Null], !.doneAt = now]
           ELSE [f EXCEPT !.pc = "graph_lookup",
                          !.reqs = <<[src |-> "graph", q |-> "agent",
                                      id |-> CompositeId(
                                               GraphChainId(GraphNetworkOf(network)),
                                               agentId)]>>]]
  /\ UNCHANGED <<agents, sync_state, now, ret, graphApiKey, timer>>

\* The frame of lookupAgent after the reply to its query: the query failed,
\* or data.agent is null, or it is an agent with the id asked for.
LookupReplies(f, t) ==
  {Thrown(f, GraphError, t)}
  \cup {[f EXCEPT !.pc = "done", !.outcome = "return",
                  !.value = [agent |-> Null], !.doneAt = t]}
  \cup {IF GraphExtractThrows(IF Falsy(a.registrationFile) THEN EmptyReg
                              ELSE a.registrationFile.v)
        THEN Thrown(f, TypeError, t)
        ELSE [f EXCEPT !.pc = "done", !.outcome = "return",
                       !.value = [agent |-> Obj(LookupResult(a))], !.doneAt = t]
        : a \in {b \in GraphAgents : parseInt(b.agentId.v) = f.agentId}}

LookupReply_Caching(p) ==
  /\ p \in Active
  /\ calls[p].pc = "graph_lookup"
  /\ \E g \in LookupReplies(calls[p], now) :
       /\ calls' = [calls EXCEPT ![p] = g]
       /\ agents' = IF g.outcome = "return" /\ g.value.agent # Null
                    THEN InsertOrReplace(agents,
                           [agent_id |-> g.agentId, reputation |-> g.value.agent.v.reputation,
                            name |-> g.value.agent.v.name])
                    ELSE agents
  /\ UNCHANGED <<sync_state, now, ret, graphApiKey, timer, ncalls>>

LookupReply(p) ==
  /\ p \in Active
  /\ calls[p].pc = "graph_lookup"
  /\ \E g \in LookupReplies(calls[p], now) : calls' = [calls EXCEPT ![p] = g]
  /\ UNCHANGED <<agents, sync_state, now, ret, graphApiKey, timer, ncalls>>

(***************************************************************************)
(* syncFromChain and the timer callback of startPeriodicSync (sync.ts).    *)
(***************************************************************************)

\* The heads the provider may report, and the mint events of the registry:
\* Transfer(0x0, owner, agentId), by block.
Heads == {0, startBlock, MaxHead}

\* The fromBlock option: absent, or block 0 (a value `||` would drop and
\* `??` keeps, below the genesis block of mainnet).
FromBlocks == {Undefined, Num(0)}

ChainLogs ==
  << [block |-> startBlock + 1, owner |-> Str(<<"0", "x", "o", "1">>), agentId |-> 1],
     [block |-> startBlock + CHUNK_SIZE + 1, owner |-> Str(<<"0", "x", "o", "2">>),
      agentId |-> 2] >>

\* contract.queryFilter(mintFilter, from, to)
LogsIn(from, to) == SelectSeq(ChainLogs, LAMBDA e : from <= e.block /\ e.block <= to)

\* String.prototype.startsWith
StartsWith(text, prefix) ==
  Len(text) >= Len(prefix) /\ SubSeq(text, 1, Len(prefix)) = prefix

\* Registration documents, and token URIs: the text, and the JSON document
\* the text encodes when it is a data URI that can be decoded.
ChainDocFull ==
  [ name |-> Str(<<"C", "1">>), description |-> Str(<<"c">>),
    capabilities |-> Arr(<<TagMcp, <<"D", "e", "F", "i">>>>),
    endpoints |-> Obj([xmtp |-> Undefined, http |-> Str(<<"h", "c">>)]) ]

ChainDocBare ==
  [ name |-> Str(<<"C", "2">>), description |-> Undefined,
    capabilities |-> Undefined, endpoints |-> Undefined ]

\* A document whose name is not a string: { "name": { "en": "x" } }.
ChainDocOdd ==
  [ name |-> Obj([en |-> Str(<<"x">>)]), description |-> Undefined,
    capabilities |-> Undefined, endpoints |-> Undefined ]

ChainDocs == {ChainDocFull, ChainDocBare, ChainDocOdd}

\* No document: metadata stays { capabilities: [] }.
NoDoc ==
  [ name |-> Undefined, description |-> Undefined,
    capabilities |-> Undefined, endpoints |-> Undefined ]

UriData    == [text |-> <<"d", "a", "t", "a", ":", "j">>, json |-> Obj(ChainDocFull)]
UriBadData == [text |-> <<"d", "a", "t", "a", ":", "?">>, json |-> Null]
UriIpfs    == [text |-> <<"i", "p", "f", "s", ":", "/", "/", "Q">>, json |-> Null]
UriOther   == [text |-> <<"f", "t", "p", ":", "x">>, json |-> Null]
UriEmpty   == [text |-> <<>>, json |-> Null]

TokenURIs == {UriEmpty, UriData, UriBadData, UriIpfs, UriOther}

\* parseDataURI: the decoded document, or null.
parseDataURI(uri) ==
  IF ~StartsWith(uri.text, <<"d", "a", "t", "a", ":">>) THEN Null ELSE uri.json

\* resolveURI: the URL to fetch, or null.
resolveURI(uri) ==
  IF uri.text = <<>> THEN Null
  ELSE IF StartsWith(uri.text, <<"d", "a", "t", "a", ":">>) THEN Null
  ELSE IF StartsWith(uri.text, <<"i", "p", "f", "s", ":", "/", "/">>)
       THEN Str(<<"h", "t", "t", "p", "s", ":", "/", "/", "i", "p", "f", "s", ".", "i", "o",
                  "/", "i", "p", "f", "s", "/">>
                \o SubSeq(uri.text, 8, Len(uri.text)))
  ELSE IF \/ StartsWith(uri.text, <<"h", "t", "t", "p", ":", "/", "/">>)
          \/ StartsWith(uri.text, <<"h", "t", "t", "p", "s", ":", "/", "/">>)
       THEN Str(uri.text)
  ELSE IF StartsWith(uri.text, <<"a", "r", ":", "/", "/">>)
       THEN Str(<<"h", "t", "t", "p", "s", ":", "/", "/", "a", "r", "w", "e", "a", "v", "e",
                  ".", "n", "e", "t", "/">>
                \o SubSeq(uri.text, 6, Len(uri.text)))
  ELSE Null

\* { ...{ capabilities: [] }, ...dataJson, agentURI, paymentAddress: owner,
\*   walletAddress: owner, network }
ChainMetadata(json, agentURI, owner) ==
  LET doc == IF json = Null THEN NoDoc ELSE json.v
  IN  [ name           |-> doc.name,
        description    |-> doc.description,
        capabilities   |-> IF doc.capabilities = Undefined THEN Arr(<<>>)
                           ELSE doc.capabilities,
        agentURI       |-> Str(agentURI),
        paymentAddress |-> owner,
        walletAddress  |-> owner,
        endpoints      |-> doc.endpoints ]

\* The call of syncFromChain throws, or returns.  The timer callback
\* swallows the throw (`catch {}`), and so does the initial sync
\* (`.catch(() => {})`).
ChainThrown_TickOnly(f, t) ==
  [f EXCEPT !.pc = "done", !.chain = "threw", !.doneAt = t,
            !.outcome = IF f.fn = "tick" THEN "return" ELSE "throw"]

ChainThrown(f, t) ==
  [f EXCEPT !.pc = "done", !.chain = "threw", !.doneAt = t,
            !.outcome = IF f.fn \in {"tick", "initial"} THEN "return" ELSE "throw"]

ChainReturned(f, t) ==
  [f EXCEPT !.pc = "done", !.chain = "returned", !.outcome = "return",
            !.value = [count |-> f.indexed], !.doneAt = t]

\* The next turn of the loop over the events: tokenURI is asked for, or
\* the loop is over.
NextEvent(f, i) ==
  IF i > Len(f.events) THEN [f EXCEPT !.pc = "chain_end"]
  ELSE [f EXCEPT !.pc = "chain_uri", !.ev = i,
                 !.creqs = Append(@, [q |-> "tokenURI", agentId |-> f.events[i].agentId])]

\* The next turn of the loop over the windows: queryFilter for the window
\* that starts at `from`, or the loop is over.
NextWindow_Inclusive(f, from) ==
  IF from <= f.currentBlock
  THEN [f EXCEPT !.pc = "chain_window", !.from = from,
                 !.to = Min(from + CHUNK_SIZE + 1, f.currentBlock),
                 !.creqs = Append(@, [q |-> "logs", from |-> from,
                                      to |-> Min(from + CHUNK_SIZE + 1, f.currentBlock),
                                      level |-> 1])]
  ELSE NextEvent(f, 1)

NextWindow(f, from) ==
  IF from <= f.currentBlock
  THEN [f EXCEPT !.pc = "chain_window", !.from = from,
                 !.to = Min(from + CHUNK_SIZE, f.currentBlock),
                 !.creqs = Append(@, [q |-> "logs", from |-> from,
                                      to |-> Min(from + CHUNK_SIZE, f.currentBlock),
                                      level |-> 1])]
  ELSE NextEvent(f, 1)

\* The next turn of the inner loop over the fallback windows of a window.
NextSub_StopsScan(f, f2) ==
  IF f2 <= f.to
  THEN [f EXCEPT !.pc = "chain_sub", !.f2 = f2,
                 !.creqs = Append(@, [q |-> "logs", from |-> f2,
                                      to |-> Min(f2 + SUB_SIZE - 1, f.to),
                                      level |-> 2])]
  ELSE NextEvent(f, 1)

NextSub(f, f2) ==
  IF f2 <= f.to
  THEN [f EXCEPT !.pc = "chain_sub", !.f2 = f2,
                 !.creqs = Append(@, [q |-> "logs", from |-> f2,
                                      to |-> Min(f2 + SUB_SIZE - 1, f.to),
                                      level |-> 2])]
  ELSE NextWindow(f, f.from + CHUNK_SIZE + 1)

\* The step of a call of syncFromChain ends in frame g with the table tbl;
\* when the loop over the events is over, lastBlock is written and the call
\* returns.
Settle(p, g, tbl) ==
  /\ agents' = tbl
  /\ IF g.pc = "chain_end"
     THEN /\ sync_state' = SetSyncState(sync_state, "lastBlock_" \o g.network,
                                        toString(g.currentBlock))
          /\ calls' = [calls EXCEPT ![p] = ChainReturned(g, now)]
     ELSE /\ calls' = [calls EXCEPT ![p] = g]
          /\ UNCHANGED sync_state

\* getBlockNumber is answered, or fails.
ChainHeadReply(p) ==
  LET f == calls[p]
  IN  /\ p \in Active
      /\ f.pc = "chain_head"
      /\ \/ /\ calls' = [calls EXCEPT ![p] = ChainThrown(f, now)]
            /\ UNCHANGED <<agents, sync_state>>
         \/ \E head \in Heads :
              IF f.lastSynced >= head
              THEN /\ calls' = [calls EXCEPT ![p] =
                        ChainReturned([f EXCEPT !.currentBlock = head], now)]
                   /\ UNCHANGED <<agents, sync_state>>
              ELSE Settle(p, NextWindow([f EXCEPT !.currentBlock = head, !.events = <<>>],
                                        f.lastSynced), agents)
      /\ UNCHANGED <<now, ret, graphApiKey, timer, ncalls>>

\* queryFilter for a window is answered, or fails: the fallback windows.
ChainWindowReply(p) ==
  LET f == calls[p]
  IN  /\ p \in Active
      /\ f.pc = "chain_window"
      /\ \/ Settle(p, NextWindow([f EXCEPT !.events = @ \o LogsIn(f.from, f.to)],
                                 f.from + CHUNK_SIZE + 1), agents)
         \/ Settle(p, NextSub(f, f.from), agents)
      /\ UNCHANGED <<now, ret, graphApiKey, timer, ncalls>>

\* queryFilter for a fallback window is answered, or fails and is skipped.
ChainSubReply(p) ==
  LET f == calls[p]
  IN  /\ p \in Active
      /\ f.pc = "chain_sub"
      /\ \/ Settle(p, NextSub([f EXCEPT !.events =
                                 @ \o LogsIn(f.f2, Min(f.f2 + SUB_SIZE - 1, f.to))],
                              f.f2 + SUB_SIZE), agents)
         \/ Settle(p, NextSub(f, f.f2 + SUB_SIZE), agents)
      /\ UNCHANGED <<now, ret, graphApiKey, timer, ncalls>>

\* indexer.indexAgent(agentId, metadata, 0); indexed++ for the event at
\* hand, then the next event.  A throw of indexAgent is caught by the try
\* block around the event: neither happens, and the next event is taken.
IndexEvent(p, f, json, agentURI) ==
  LET e      == f.events[f.ev]
      values == BoundValues(e.agentId, ChainMetadata(json, agentURI, e.owner), 0, now)
  IN  IF RunThrows(values)
      THEN Settle(p, NextEvent([f EXCEPT !.agentURI = <<>>], f.ev + 1), agents)
      ELSE Settle(p, NextEvent([f EXCEPT !.indexed = @ + 1, !.agentURI = <<>>],
                               f.ev + 1),
                  InsertOrReplace(agents, values))

\* tokenURI is answered, or fails.
ChainURIReply(p) ==
  LET f == calls[p]
  IN  /\ p \in Active
      /\ f.pc = "chain_uri"
      /\ \/ IndexEvent(p, f, Null, <<>>)
         \/ \E uri \in TokenURIs :
              IF parseDataURI(uri) # Null
              THEN IndexEvent(p, f, parseDataURI(uri), uri.text)
              ELSE IF resolveURI(uri) # Null
              THEN /\ calls' = [calls EXCEPT ![p] =
                        [f EXCEPT !.pc = "chain_fetch", !.agentURI = uri.text,
                                  !.creqs = Append(@, [q |-> "fetch",
                                                       url |-> resolveURI(uri).v])]]
                   /\ UNCHANGED <<agents, sync_state>>
              ELSE IndexEvent(p, f, Null, uri.text)
      /\ UNCHANGED <<now, ret, graphApiKey, timer, ncalls>>

\* The fetch of the registration document is answered with the document,
\* or rejects, or is answered with a status that is not ok.
ChainFetchReply(p) ==
  LET f == calls[p]
  IN  /\ p \in Active
      /\ f.pc = "chain_fetch"
      /\ \/ IndexEvent(p, f, Null, f.agentURI)
         \/ \E doc \in ChainDocs : IndexEvent(p, f, Obj(doc), f.agentURI)
      /\ UNCHANGED <<now, ret, graphApiKey, timer, ncalls>>

\* startPeriodicSync: setInterval, then the initial sync up to its first
\* await, smartSync(indexer, 'mainnet', { quiet: true }) with its catch
\* handlers attached, then `return timer`.
startPeriodicSync(p) ==
  /\ p \in Active
  /\ timer.state = "none"
  /\ calls[p].pc \in {"idle", "done"}
  /\ ncalls < MaxCalls
  /\ ncalls' = ncalls + 1
  /\ timer' = [timer EXCEPT !.state = "armed"]
  /\ calls' = [calls EXCEPT ![p] =
       BeginSmartSync([Frame0 EXCEPT !.fn = "initial", !.network = "mainnet",
                                     !.startedAt = now,
                                     !.pre = [agents |-> agents,
                                              sync_state |-> sync_state]],
                      graphApiKey)]
  /\ UNCHANGED <<agents, sync_state, now, ret, graphApiKey>>

\* clearInterval(timer) by the caller that holds the handle.
clearInterval ==
  /\ timer.state = "armed"
  /\ timer' = [state |-> "cleared",
               inflight |-> {p \in Active : calls[p].pc \notin {"idle", "done"}}]
  /\ UNCHANGED <<agents, sync_state, now, ret, graphApiKey, calls, ncalls>>

\* The timer made by setInterval runs its callback until it is cleared.
TimerFires_Rearmed(t) == t.state # "none"

TimerFires(t) == t.state = "armed"

\* The interval timer of startPeriodicSync fires: the callback up to its
\* first await, smartSync(indexer, 'mainnet', { quiet: true }).  The timer
\* does not look at the passes in flight: the callback runs as caller p
\* beside them.
PeriodicTick_Locked(p) ==
  /\ p \in Callers
  /\ TimerFires(timer)
  /\ p \in Active => calls[p].pc \in {"idle", "done"}
  /\ ncalls < MaxCalls
  /\ ncalls' = ncalls + 1
  /\ calls' = [q \in Active \cup {p} |->
       IF q # p THEN calls[q]
       ELSE IF \E r \in Active : calls[r].pc \notin {"idle", "done"}
       THEN [Frame0 EXCEPT !.fn = "tick", !.network = "mainnet",
                           !.pc = "done", !.outcome = "return",
                           !.startedAt = now, !.doneAt = now,
                           !.pre = [agents |-> agents, sync_state |-> sync_state]]
       ELSE BeginSmartSync([Frame0 EXCEPT !.fn = "tick", !.network = "mainnet",
                                          !.startedAt = now,
                                          !.pre = [agents |-> agents,
                                                   sync_state |-> sync_state]],
                           graphApiKey)]
  /\ UNCHANGED <<agents, sync_state, now, ret, graphApiKey, timer>>

PeriodicTick(p) ==
  /\ p \in Callers
  /\ TimerFires(timer)
  /\ p \in Active => calls[p].pc \in {"idle", "done"}
  /\ ncalls < MaxCalls
  /\ ncalls' = ncalls + 1
  /\ calls' = [q \in Active \cup {p} |->
       IF q # p THEN calls[q]
       ELSE BeginSmartSync([Frame0 EXCEPT !.fn = "tick", !.network = "mainnet",
                                          !.startedAt = now,
                                          !.pre = [agents |-> agents,
                                                   sync_state |-> sync_state]],
                           graphApiKey)]
  /\ UNCHANGED <<agents, sync_state, now, ret, graphApiKey, timer>>

(***************************************************************************)
(* The read commands `anet find` (cli/find.ts) and `anet search`           *)
(* (cli/search.ts), run without a query or filter.                         *)
(***************************************************************************)

\* isCacheStale(network): the default ttlMs, 3600_000 in the code.
DEFAULT_TTL == MaxTtl

\* The lists a command may print from the table: find prints the curated
\* agents that have an endpoint, search the first 50 by reputation.
CommandSearch(cmd, tbl) ==
  IF cmd = "find"
  THEN { SelectSeq(l, LAMBDA a : ~Falsy(a.http_endpoint) \/ ~Falsy(a.xmtp_address)) :
           l \in searchAgentsValues(tbl, [capability |-> Undefined,
                                          minReputation |-> Num(3),
                                          limit |-> Num(20)]) }
  ELSE searchAgentsValues(tbl, [capability |-> Undefined, minReputation |-> Undefined,
                                limit |-> Num(50)])

\* The command prints the list and closes the indexer.
Shown(f, list, tbl, t) ==
  [f EXCEPT !.pc = "done", !.outcome = "return", !.report = "results",
            !.shown = list, !.post = tbl, !.doneAt = t]

\* A read command up to its first await, or to its end when it awaits
\* nothing: with --refresh or an empty cache it awaits smartSync; with a
\* stale cache it starts refreshCache without awaiting it (caller b), then
\* searches, prints and closes the indexer in the same turn.
ReadCommand(p, cmd, network, all, refresh) ==
  LET count == getAgentCountValue(agents)
      f0    == [Frame0 EXCEPT !.fn = cmd, !.network = network, !.all = all,
                              !.refresh = refresh, !.count0 = count,
                              !.startedAt = now,
                              !.pre = [agents |-> agents, sync_state |-> sync_state]]
      bg    == [Frame0 EXCEPT !.fn = "refreshCache", !.network = network,
                              !.ttlMs = DEFAULT_TTL, !.closed = TRUE,
                              !.startedAt = now,
                              !.pre = [agents |-> agents, sync_state |-> sync_state]]
  IN  /\ p \in Active
      /\ calls[p].pc \in {"idle", "done"}
      /\ cmd = "find" => network = "mainnet" /\ ~all
      /\ ncalls < MaxCalls
      /\ ncalls' = ncalls + 1
      /\ IF refresh \/ count = 0
         THEN calls' = [calls EXCEPT ![p] = BeginSmartSync(f0, graphApiKey)]
         ELSE \E list \in CommandSearch(cmd, agents) :
                IF isCacheStaleValue(sync_state, now, network, DEFAULT_TTL)
                THEN \E b \in Callers \ {p} :
                       /\ b \in Active => calls[b].pc \in {"idle", "done"}
                       /\ calls' = [q \in Active \cup {b} |->
                            IF q = p THEN Shown(f0, list, agents, now)
                            ELSE IF q = b THEN BeginSmartSync(bg, graphApiKey)
                            ELSE calls[q]]
                ELSE calls' = [calls EXCEPT ![p] = Shown(f0, list, agents, now)]
      /\ UNCHANGED <<agents, sync_state, now, ret, graphApiKey, timer>>

\* The awaited smartSync of a read command has returned, or has thrown over
\* a cache that was not empty: the command searches, prints and closes.
CommandResults(p) ==
  /\ p \in Active
  /\ calls[p].pc = "cmd_search"
  /\ \E list \in CommandSearch(calls[p].fn, agents) :
       calls' = [calls EXCEPT ![p] = Shown(calls[p], list, agents, now)]
  /\ UNCHANGED <<agents, sync_state, now, ret, graphApiKey, timer, ncalls>>

(***************************************************************************)
(* The indexer used on its own, as tests/indexer.test.ts does.             *)
(***************************************************************************)
Init ==
  /\ agents = <<>>
  /\ sync_state = <<>>
  /\ now = StartTime
  /\ ret = NoCall
  /\ graphApiKey \in {Str(<<>>), Str(<<"k">>)}
  /\ calls = [p \in {1} |-> Frame0]
  /\ ncalls = 0
  /\ timer = NoTimer

NextStore ==
  \/ \E id \in AgentIds, m \in Metadatas, r \in Reps : indexAgent(id, m, r)
  \/ \E id \in AgentIds : getAgent(id)
  \/ \E id \in AgentIds : removeAgent(id)
  \/ \E p \in SearchParams : searchAgents(p)
  \/ \E l \in Limits : getTopAgents(l)
  \/ getAgentCount
  \/ Continue

SpecStore == Init /\ [][NextStore]_vars

(***************************************************************************)
(* The SyncState table and the staleness test under a running clock.       *)
(***************************************************************************)
NextStale ==
  \/ \E n \in Networks, ttl \in Ttls : isCacheStale(n, ttl)
  \/ \E k \in SyncStateKeys : setSyncState(k, toString(now))
  \/ \E k \in SyncStateKeys : getSyncState(k)
  \/ Tick
  \/ Continue

SpecStale == Init /\ [][NextStale]_vars

(***************************************************************************)
(* The orchestrator at work: calls of smartSync and refreshCache, the      *)
(* replies of the sources, and the clock.                                  *)
(***************************************************************************)
Next ==
  \/ \E p \in Callers, n \in Networks, all \in BOOLEAN : smartSync(p, n, all)
  \/ \E p \in Callers, n \in Networks, ttl \in Ttls : refreshCache(p, n, ttl)
  \/ \E p \in Callers : GraphStatsReply(p, GraphDatasets)
  \/ \E p \in Callers : GraphPageReply(p)
  \/ \E p \in Callers : RestReply(p, StatusesBasic, RestDatasets, TRUE)
  \/ \E p \in Callers : RestBackoffDone(p)
  \/ Tick

Spec == Init /\ [][Next]_vars

(***************************************************************************)
(* The REST sync on its own, against a source that may answer with any     *)
(* status, serve a malformed agent, and report a total that is not the     *)
(* number of agents it serves.                                             *)
(***************************************************************************)
NextRest ==
  \/ \E p \in Callers, n \in Networks : syncFromAPI(p, n)
  \/ \E p \in Callers : RestReply(p, Statuses, RestListings, FALSE)
  \/ \E p \in Callers : RestBackoffDone(p)

SpecRest == Init /\ [][NextRest]_vars

(***************************************************************************)
(* Ingestion: smartSync against a subgraph and a REST source that may      *)
(* serve a malformed agent.                                                *)
(***************************************************************************)
NextIngest ==
  \/ \E p \in Callers, n \in Networks, all \in BOOLEAN : smartSync(p, n, all)
  \/ \E p \in Callers : GraphStatsReply(p, GraphListings)
  \/ \E p \in Callers : GraphPageReply(p)
  \/ \E p \in Callers : RestReply(p, {200}, RestListings, TRUE)

SpecIngest == Init /\ [][NextIngest]_vars

(***************************************************************************)
(* The periodic sync: ticks of the timer, the sources, and the registry    *)
(* contract behind the RPC provider.                                       *)
(***************************************************************************)
NextPeriodic ==
  \/ \E p \in Callers : startPeriodicSync(p)
  \/ clearInterval
  \/ PeriodicTick(1)
  \/ \E p \in Callers : GraphStatsReply(p, {d \in GraphDatasets : Len(d) <= 1})
  \/ \E p \in Callers : GraphPageReply(p)
  \/ \E p \in Callers : RestReply(p, {200, 500}, {d \in RestDatasets : Len(d) <= 1}, TRUE)
  \/ \E p \in Callers : ChainHeadReply(p)
  \/ \E p \in Callers : ChainWindowReply(p)
  \/ \E p \in Callers : ChainSubReply(p)
  \/ \E p \in Callers : ChainURIReply(p)
  \/ \E p \in Callers : ChainFetchReply(p)

SpecPeriodic == Init /\ [][NextPeriodic]_vars

(***************************************************************************)
(* The chain scan on its own, against a provider whose calls may fail.     *)
(***************************************************************************)
NextChain ==
  \/ \E p \in Callers, n \in Networks : syncFromChain(p, n, Undefined)
  \/ \E p \in Callers : ChainHeadReply(p)
  \/ \E p \in Callers : ChainWindowReply(p)
  \/ \E p \in Callers : ChainSubReply(p)
  \/ \E p \in Callers : ChainURIReply(p)
  \/ \E p \in Callers : ChainFetchReply(p)

SpecChain == Init /\ [][NextChain]_vars

(***************************************************************************)
(* The chain scan called with or without its fromBlock option.             *)
(***************************************************************************)
NextScan ==
  \/ \E n \in Networks, fb \in FromBlocks : syncFromChain(1, n, fb)
  \/ ChainHeadReply(1)
  \/ ChainWindowReply(1)
  \/ ChainSubReply(1)
  \/ ChainURIReply(1)
  \/ ChainFetchReply(1)

SpecScan == Init /\ [][NextScan]_vars

(***************************************************************************)
(* The read commands, the sources and the clock.                           *)
(***************************************************************************)
NextCommand ==
  \/ \E p \in Callers, c \in Commands, n \in Networks, all, refresh \in BOOLEAN :
       ReadCommand(p, c, n, all, refresh)
  \/ \E p \in Callers : CommandResults(p)
  \/ \E p \in Callers : GraphStatsReply(p, GraphDatasets)
  \/ \E p \in Callers : GraphPageReply(p)
  \/ \E p \in Callers : RestReply(p, {200, 500}, {d \in RestDatasets : Len(d) <= 1}, TRUE)
  \/ Tick

SpecCommand == Init /\ [][NextCommand]_vars

(***************************************************************************)
(* The two capability extractors applied to payloads alone.                *)
(***************************************************************************)
TextRep  == <<"R", "e", "p">>
TextT1   == <<"t", "1">>
TextT2   == <<"t", "2">>

\* Lists of trust mechanisms or protocols as a source may send them: absent,
\* null, empty, strings in either case, a non-string entry, not a list.
TrustLists ==
  { Undefined, Null, Arr(<<>>), Arr(<<Str(TextRep)>>),
    Arr(<<Str(<<"M", "C", "P">>), Str(TagX402)>>),
    Arr(<<Str(TextRep), Str(<<"r", "e", "p">>)>>),
    Arr(<<Num(1)>>), Num(5) }

Flags == {Bool(FALSE), Bool(TRUE)}

Endpoints == {Undefined, Str(<<"u">>)}

ToolLists == {Undefined, Arr(<<Str(TextT1), Str(TextT2)>>),
              Arr(<<Str(TextT1), Str(TextT1)>>)}

\* The skills of the two other frameworks: none, an A2A skill, an OASF skill.
SkillLists ==
  { [a2a |-> Undefined, oasf |-> Undefined],
    [a2a |-> Arr(<<Str(<<"S">>)>>), oasf |-> Arr(<<>>)],
    [a2a |-> Null, oasf |-> Arr(<<Str(TextT1)>>)] }

\* Registration files of the subgraph.
GraphPayloads ==
  { [EmptyReg EXCEPT !.supportedTrusts = st, !.x402Support = x,
                     !.mcpEndpoint = m, !.a2aEndpoint = a, !.webEndpoint = w,
                     !.oasfEndpoint = o, !.hasOASF = h, !.emailEndpoint = e,
                     !.mcpTools = mt, !.a2aSkills = sk.a2a,
                     !.oasfSkills = sk.oasf] :
      st \in TrustLists, x \in Flags, m \in Endpoints, a \in Endpoints,
      w \in Endpoints, o \in Endpoints, h \in {Undefined, Bool(TRUE)},
      e \in Endpoints, mt \in ToolLists, sk \in SkillLists }

\* Agents of 8004scan, as far as extractCapabilities reads them.
RestPayloads ==
  { [ supported_protocols |-> sp, x402_supported |-> x, services |-> sv,
      tags |-> tg, categories |-> cg ] :
      sp \in TrustLists, x \in Flags,
      sv \in { Undefined, Obj(NoService),
               Obj([NoService EXCEPT !.mcp = Obj([endpoint |-> Str(<<"u">>)])]),
               Obj([NoService EXCEPT !.a2a = Obj([endpoint |-> Str(<<"u">>)])]) },
      tg \in { Undefined, Arr(<<Str(TagMcp)>>), Arr(<<Str(<<"D", "e", "F", "i">>)>>),
               Num(5) },
      cg \in { Undefined, Arr(<<Str(TagX402)>>) } }

\* extractCapabilities(agent, reg) of graph.ts returns or throws.
GraphExtract(reg) ==
  /\ ret = NoCall
  /\ ret' = [ op |-> "extractCapabilities", source |-> "graph", payload |-> reg,
              outcome |-> IF GraphExtractThrows(reg) THEN "throw" ELSE "return",
              value |-> IF GraphExtractThrows(reg) THEN <<>>
                        ELSE GraphExtractCapabilities(reg) ]
  /\ UNCHANGED <<agents, sync_state, now, graphApiKey, timer, calls, ncalls>>

\* extractCapabilities(agent) of sync.ts returns or throws.
RestExtract(agent) ==
  /\ ret = NoCall
  /\ ret' = [ op |-> "extractCapabilities", source |-> "rest", payload |-> agent,
              outcome |-> IF RestExtractThrows(agent) THEN "throw" ELSE "return",
              value |-> IF RestExtractThrows(agent) THEN <<>>
                        ELSE RestExtractCapabilities(agent) ]
  /\ UNCHANGED <<agents, sync_state, now, graphApiKey, timer, calls, ncalls>>

NextExtract ==
  \/ \E reg \in GraphPayloads : GraphExtract(reg)
  \/ \E agent \in RestPayloads : RestExtract(agent)
  \/ Continue

SpecExtract == Init /\ [][NextExtract]_vars

(***************************************************************************)
(* Passes that overlap: the initial sync of startPeriodicSync and the      *)
(* ticks of its timer over sources that serve the same agents to every     *)
(* pass, or fail.                                                          *)
(***************************************************************************)
ServedByGraph == <<GraphAgentA, GraphAgentB, GraphAgentC>>
ServedByRest  == <<RestAgentA, RestAgentB, RestAgentC>>

NextOverlap ==
  \/ startPeriodicSync(1)
  \/ \E p \in Callers : PeriodicTick(p)
  \/ \E p \in Callers : GraphStatsReply(p, {ServedByGraph})
  \/ \E p \in Callers : GraphPageReply(p)
  \/ \E p \in Callers : RestReply(p, {200, 500}, {ServedByRest}, TRUE)
  \/ Tick

SpecOverlap == Init /\ [][NextOverlap]_vars

(***************************************************************************)
(* Readers of the store beside its writers: sync passes, upserts and       *)
(* removals.                                                               *)
(***************************************************************************)
NoFilter == [capability |-> Undefined, minReputation |-> Undefined,
             limit |-> Undefined]

NextReaders ==
  \/ \E all \in BOOLEAN : smartSync(1, "mainnet", all)
  \/ GraphStatsReply(1, {d \in GraphDatasets : Len(d) = PAGE_SIZE})
  \/ GraphPageReply(1)
  \/ RestReply(1, {200}, {d \in RestDatasets : Len(d) = 1}, TRUE)
  \/ \E id \in AgentIds : indexAgent(id, MetaFull, MaxRep)
  \/ \E id \in AgentIds : removeAgent(id)
  \/ \E id \in AgentIds : getAgent(id)
  \/ searchAgents(NoFilter)
  \/ Continue

SpecReaders == Init /\ [][NextReaders]_vars

(***************************************************************************)
(* Lookups of single agents over a store that is being filled.             *)
(***************************************************************************)
NextLookup ==
  \/ \E id \in AgentIds, m \in {MetaFull, MetaEmpty} : indexAgent(id, m, MaxRep)
  \/ \E n \in Networks : setSyncState("lastSyncTime_" \o n, toString(now))
  \/ Continue
  \/ \E p \in Callers, id \in AgentIds, n \in Networks : lookupAgentById(p, id, n)
  \/ \E p \in Callers : LookupReply(p)

SpecLookup == Init /\ [][NextLookup]_vars

(***************************************************************************)
(* Properties.                                                             *)
(***************************************************************************)

\* `part` occurs in `text` as a run of consecutive characters.
IsSubstring(part, text) ==
  \E i \in 0..(Len(text) - Len(part)) : SubSeq(text, i + 1, i + Len(part)) = part

\* The ids of the records of a result list.
IdsOf(rows) == {rows[i].agent_id : i \in 1..Len(rows)}

\* C6: isCacheStale(network, ttl) is true exactly when no sync timestamp is
\* recorded for that network or now minus the recorded timestamp is strictly
\* greater than ttl; timestamps of other networks play no part.
C6_StaleExactly ==
  ret.op = "isCacheStale" =>
    LET key == "lastSyncTime_" \o ret.network
    IN  IF key \notin DOMAIN sync_state THEN ret.value = TRUE
        ELSE \E t \in Times :
               /\ sync_state[key] = toString(t)
               /\ ret.value = (ret.at - t > ret.ttlMs)

\* A timestamp is recorded for the network, another one for the other
\* network, and the cache is reported stale: the TTL has passed.
C6_Witness ==
  /\ ret.op = "isCacheStale"
  /\ ret.value = TRUE
  /\ \A n \in Networks : ("lastSyncTime_" \o n) \in DOMAIN sync_state
  /\ \E n \in Networks \ {ret.network} :
       sync_state["lastSyncTime_" \o n] = toString(ret.at)

\* C7: indexAgent on an agentId that is already stored is a full replace:
\* the count does not change, and the stored record has exactly the fields
\* and the score of this call; what the call does not supply is empty or
\* default, whatever the previous record held.
C7_UpsertReplaces ==
  [][ (ret'.op = "indexAgent" /\ ret.op = "none" /\ ret'.agentId \in DOMAIN agents) =>
        LET id  == ret'.agentId
            m   == ret'.metadata
            new == agents'[id]
            opt(v) == IF v.t = "string" /\ v.v # <<>> THEN v ELSE Null
            txt(v) == IF v.t = "string" THEN v ELSE Str(<<>>)
        IN  /\ getAgentCountValue(agents') = getAgentCountValue(agents)
            /\ new.agent_id = id
            /\ new.name = opt(m.name)
            /\ new.description = opt(m.description)
            /\ new.wallet_address = txt(m.paymentAddress)
            /\ new.payment_address = opt(m.paymentAddress)
            /\ new.agent_uri = txt(m.agentURI)
            /\ new.http_endpoint =
                 (IF m.endpoints.t = "object" THEN opt(m.endpoints.v.http) ELSE Null)
            /\ new.xmtp_address =
                 (IF m.endpoints.t = "object" THEN opt(m.endpoints.v.xmtp) ELSE Null)
            /\ getAgentValue(agents', id).v.capabilities =
                 (IF m.capabilities.t = "array" THEN m.capabilities.v ELSE <<>>)
            /\ new.reputation = ret'.reputation
            /\ new.feedback_count = 0
            /\ new.last_updated = Null
            /\ new.indexed_at = now
    ]_vars

\* A record with a name and an endpoint has been replaced by a call that
\* supplied neither.
C7_Witness ==
  /\ ret.op = "indexAgent"
  /\ ret.replaced.t = "object"
  /\ ret.replaced.v.name # Null
  /\ ret.replaced.v.http_endpoint # Null
  /\ ret.replaced.v.reputation # ret.reputation
  /\ agents[ret.agentId].name = Null
  /\ agents[ret.agentId].http_endpoint = Null
  /\ Cardinality(DOMAIN agents) = MaxAgentId

\* C8: searchAgents without a limit returns exactly the stored records that
\* satisfy every supplied filter: the capability filter is a substring of
\* the serialized capability list, the reputation is >= minReputation.
C8_SearchExactlyMatching ==
  (ret.op = "searchAgents" /\ Falsy(ret.params.limit)) =>
    IdsOf(ret.value) =
      { id \in DOMAIN agents :
          /\ ret.params.capability.t = "string" =>
               IsSubstring(ret.params.capability.v, agents[id].capabilities)
          /\ ret.params.minReputation.t = "number" =>
               agents[id].reputation >= ret.params.minReputation.v }

\* C9: the list searchAgents returns is ordered by reputation descending,
\* for every content of the store and every combination of filters and
\* limit.
C9_SearchSorted ==
  ret.op = "searchAgents" =>
    \A i \in 1..(Len(ret.value) - 1) :
      ret.value[i].reputation >= ret.value[i + 1].reputation

\* A filtered, limited search over a store of different reputations has
\* returned more than one record.
C9_Witness ==
  /\ ret.op = "searchAgents"
  /\ ret.params.minReputation.t = "number"
  /\ ret.params.limit.t = "number"
  /\ Len(ret.value) >= 2
  /\ ret.value[1].reputation > ret.value[2].reputation

\* C10: getTopAgents(n), n >= 1, returns min(n, count()) distinct stored
\* records, each with a reputation >= that of every record not returned.
C10_TopAgents ==
  (ret.op = "getTopAgents" /\ ret.limit.t = "number" /\ ret.limit.v >= 1) =>
    /\ Len(ret.value) = Min(ret.limit.v, getAgentCountValue(agents))
    /\ Cardinality(IdsOf(ret.value)) = Len(ret.value)
    /\ \A i \in 1..Len(ret.value) :
         /\ ret.value[i].agent_id \in DOMAIN agents
         /\ ret.value[i] = getAgentValue(agents, ret.value[i].agent_id).v
         /\ \A id \in (DOMAIN agents) \ IdsOf(ret.value) :
              ret.value[i].reputation >= agents[id].reputation

\* getTopAgents(1) over a store of records with different reputations.
C10_Witness ==
  /\ ret.op = "getTopAgents"
  /\ ret.limit = Num(1)
  /\ Len(ret.value) = 1
  /\ \E id \in DOMAIN agents : agents[id].reputation < ret.value[1].reputation

\* A result list without the record of one agent.
Without(rows, agentId) ==
  LET keep == {i \in 1..Len(rows) : rows[i].agent_id # agentId}
      nth(k) == CHOOSE i \in keep : Cardinality({j \in keep : j < i}) = k - 1
  IN  [k \in 1..Cardinality(keep) |-> rows[nth(k)]]

Contacted(f) == {f.reqs[i].src : i \in 1..Len(f.reqs)}

\* The call has run a sync that returned (not the fresh branch of
\* refreshCache, not a failure).
SyncSucceeded(f) ==
  /\ f.pc = "done"
  /\ f.outcome = "return"
  /\ f.fn = "refreshCache" => f.value.synced

\* C1: in smartSync the Graph source is tried first whenever an API key is
\* configured; the REST source is contacted only without a key or after the
\* Graph attempt threw; when the Graph attempt succeeds the REST source is
\* not contacted and the Graph result is returned.
C1_GraphFirst ==
  \A p \in Active :
    LET f == calls[p]
    IN  f.reqs # <<>> =>
          /\ ~Falsy(graphApiKey) => f.reqs[1].src = "graph"
          /\ "rest" \in Contacted(f) => (Falsy(graphApiKey) \/ f.graph = "threw")
          /\ \A i, j \in 1..Len(f.reqs) :
               (i < j /\ f.reqs[i].src = "rest") => f.reqs[j].src = "rest"
          /\ f.graph = "returned" =>
               /\ "rest" \notin Contacted(f)
               /\ f.rest = "no"
               /\ f.pc = "done" /\ f.outcome = "return"
               /\ f.value.count = f.indexed
               /\ f.reqs[Len(f.reqs)] = [src |-> "graph", q |-> "agents",
                                         skip |-> f.reqs[Len(f.reqs)].skip]

\* With a key configured the Graph sync threw after a page, and the REST
\* sync then satisfied the call.
C1_Witness ==
  \E p \in Active :
    /\ ~Falsy(graphApiKey)
    /\ calls[p].fn = "smartSync"
    /\ calls[p].graph = "threw"
    /\ calls[p].rest = "returned"
    /\ Len(calls[p].reqs) >= 4

\* C2: when smartSync fails because every attempted source failed, the
\* Record Store and the SyncState table are what they were before the call.
C2_FailureLeavesCache ==
  \A p \in Active :
    LET f == calls[p]
    IN  (f.pc = "done" /\ f.outcome = "throw") =>
          /\ agents = f.pre.agents
          /\ sync_state = f.pre.sync_state

\* C3: right after a full sync for network N has succeeded, isCacheStale(N,
\* ttl) is false for every ttl > 0.
C3_FreshAfterSync ==
  \A p \in Active :
    LET f == calls[p]
    IN  (SyncSucceeded(f) /\ now = f.doneAt) =>
          \A ttl \in Ttls : ~isCacheStaleValue(sync_state, now, f.network, ttl)

\* C4: after a successful sync pass SyncState holds, for the network of the
\* pass, the total-known count, the indexed count of the pass, the timestamp
\* of the pass and the name of the source that satisfied it.
C4_SyncStateComplete ==
  \A p \in Active :
    LET f == calls[p]
        n == f.network
    IN  (SyncSucceeded(f) /\ now = f.doneAt) =>
          /\ {"total_" \o n, "indexed_" \o n, "lastSyncTime_" \o n, "source_" \o n}
               \subseteq DOMAIN sync_state
          /\ sync_state["lastSyncTime_" \o n] = toString(f.doneAt)
          /\ sync_state["indexed_" \o n] = toString(f.indexed)
          /\ sync_state["total_" \o n] =
               toString(IF f.graph = "returned" THEN f.totalRegistered ELSE f.total)
          /\ f.graph = "returned" <=> sync_state["source_" \o n] = TextTheGraph

\* C5: refreshCache is gated by staleness.  Fresh: no source is contacted,
\* nothing is written, and {synced: false, count} with the record count is
\* returned.  Stale: the sync cascade is started, synced: false is never
\* returned, and a return is {synced: true, ...} after a source's sync has
\* returned.
C5_RefreshGated ==
  \A p \in Active :
    LET f     == calls[p]
        key   == "lastSyncTime_" \o f.network
        stale == \/ key \notin DOMAIN f.pre.sync_state
                 \/ \E t \in Times : /\ f.pre.sync_state[key] = toString(t)
                                     /\ f.startedAt - t > f.ttlMs
    IN  f.fn = "refreshCache" =>
          IF ~stale
          THEN /\ f.pc = "done" /\ f.outcome = "return"
               /\ f.reqs = <<>>
               /\ f.graph = "no" /\ f.rest = "no"
               /\ f.value = [synced |-> FALSE,
                             count |-> Cardinality(DOMAIN f.pre.agents)]
               /\ agents = f.pre.agents
               /\ sync_state = f.pre.sync_state
          ELSE /\ f.reqs # <<>>
               /\ f.outcome = "return" =>
                    /\ f.value.synced = TRUE
                    /\ f.graph = "returned" \/ f.rest = "returned"
                    /\ f.pc = "done"

\* A refreshCache that found the cache fresh, over a store that holds
\* records, after time has passed since the sync that filled it.
C5_Witness ==
  \E p \in Active :
    /\ calls[p].fn = "refreshCache"
    /\ calls[p].outcome = "return"
    /\ calls[p].value = [synced |-> FALSE, count |-> MaxRemote]
    /\ calls[p].startedAt > StartTime

\* 2^n
RECURSIVE Pow2(_)
Pow2(n) == IF n = 0 THEN 1 ELSE 2 * Pow2(n - 1)

\* The page requests a call has sent to the REST source, in order.
RestReqs(f) == SelectSeq(f.reqs, LAMBDA r : r.src = "rest")

\* The sum of the first n entries of a list of numbers.
RECURSIVE SumTo(_, _)
SumTo(list, n) == IF n = 0 THEN 0 ELSE list[n] + SumTo(list, n - 1)

\* C12: against a REST source that answers 429, fetchAgents sends at most 5
\* requests for a page, every retry follows a wait, the waits start at 1000
\* ms and double each time, and after the fifth 429 the call fails with the
\* rate-limited error; a response other than 429 ends the retrying: the page
\* is not requested again.
C12_Backoff ==
  /\ [](\A p \in Active :
          LET f == calls[p]
          IN  /\ f.fetches <= 5
              /\ \A i \in 1..Len(f.waits) : f.waits[i] = 1000 * Pow2(i - 1)
              /\ f.pc = "rest_fetch" => f.fetches = Len(f.waits) + 1
              /\ f.pc = "rest_backoff" => f.fetches = Len(f.waits)
              /\ f.error = RateLimited <=> (f.pc = "done" /\ Len(f.waits) = 5)
              /\ f.error = RateLimited =>
                   (f.fetches = 5 /\ f.outcome = "throw" /\ f.rest = "threw"))
  /\ [][ \A p \in Active :
           (calls[p].pc = "rest_fetch" /\ calls'[p] # calls[p]
              /\ calls'[p].status # 429) =>
             \/ calls'[p].pc = "done"
             \/ /\ calls'[p].pc = "rest_fetch"
                /\ calls'[p].offset > calls[p].offset
                /\ calls'[p].fetches = 1 /\ calls'[p].waits = <<>>
       ]_vars

\* Five requests for one page were all answered 429, after an earlier page
\* had been served.
C12_Witness ==
  \E p \in Active :
    /\ calls[p].error = RateLimited
    /\ calls[p].waits = <<1000, 2000, 4000, 8000, 16000>>
    /\ calls[p].rpages # <<>>

\* C13: a response with a status that is neither 2xx nor 429 makes
\* fetchAgents throw at once an error that carries the status: no request
\* and no wait follows for that page, nothing is written, and the call of
\* syncFromAPI ends with that error.
C13_StatusError ==
  /\ [][ \A p \in Active :
           LET f == calls[p]
               g == calls'[p]
           IN  (f.pc = "rest_fetch" /\ g # f /\ g.status \notin (200..299) \cup {429, 0}) =>
                 /\ g.pc = "done" /\ g.outcome = "throw" /\ g.rest = "threw"
                 /\ g.error = [kind |-> "status", status |-> g.status]
                 /\ g.fetches = f.fetches /\ g.waits = f.waits /\ g.reqs = f.reqs
                 /\ agents' = agents /\ sync_state' = sync_state
       ]_vars
  /\ [](\A p \in Active :
          calls[p].error.kind = "status" =>
            /\ calls[p].error.status = calls[p].status
            /\ calls[p].status \notin (200..299) \cup {429})

\* The second page of a pass was answered 500 on a retry after a 429.
C13_Witness ==
  \E p \in Active :
    /\ calls[p].error = [kind |-> "status", status |-> 500]
    /\ calls[p].waits = <<1000>>
    /\ calls[p].fetches = 2
    /\ Len(calls[p].rpages) = 1
    /\ calls[p].pc = "done"

\* C14: syncFromAPI requests pages with strictly increasing offset, and it
\* requests a further page only after a page that held items and while the
\* items consumed so far are fewer than the reported total.
C14_RestPagination ==
  \A p \in Active :
    LET f == calls[p]
        r == RestReqs(f)
    IN  /\ \A i \in 1..(Len(r) - 1) : r[i].offset < r[i + 1].offset
        /\ \A i \in 1..Len(f.rpages) :
             i < Len(r) => (f.rpages[i] > 0 /\ SumTo(f.rpages, i) < f.total)

\* The page queries a call has sent to the subgraph, in order.
GraphPageReqs(f) == SelectSeq(f.reqs, LAMBDA r : r.src = "graph" /\ r.q = "agents")

\* C15: syncFromGraph asks for pages of PAGE_SIZE records with skip equal to
\* the number of records received so far, goes on only after a full page,
\* and returns after the first page shorter than PAGE_SIZE, an empty one
\* included: for N records it has then sent N div PAGE_SIZE + 1 page
\* queries, has received every record once and has ingested none twice.
C15_GraphPagination ==
  \A p \in Active :
    LET f == calls[p]
        r == GraphPageReqs(f)
        n == Len(f.gpages)
    IN  /\ Len(r) \in {n, n + 1}
        /\ \A k \in 1..Len(r) : r[k].skip = SumTo(f.gpages, k - 1)
        /\ \A k \in 1..n : f.gpages[k] <= PAGE_SIZE
        /\ \A k \in 1..n : k < Len(r) => f.gpages[k] = PAGE_SIZE
        /\ f.graph = "returned" =>
             /\ Len(r) = n
             /\ f.gpages[n] < PAGE_SIZE
             /\ Len(r) = (Len(f.gdata) \div PAGE_SIZE) + 1
             /\ SumTo(f.gpages, n) = Len(f.gdata)
             /\ f.indexed <= Len(f.gdata)

\* The subgraph holds a whole number of pages: the pass ended on an empty
\* page.
C15_Witness ==
  \E p \in Active :
    /\ calls[p].graph = "returned"
    /\ Len(calls[p].gpages) = 2
    /\ calls[p].gpages[1] = PAGE_SIZE
    /\ calls[p].gpages[2] = 0

\* The registration file of an agent of the subgraph.
RegOf(agent) ==
  IF agent.registrationFile.t = "object" THEN agent.registrationFile.v ELSE EmptyReg

\* The agent has none of the service endpoints.
NoEndpoint(agent) ==
  \A e \in {"mcpEndpoint", "a2aEndpoint", "webEndpoint", "oasfEndpoint", "emailEndpoint"} :
    RegOf(agent)[e] \in {Undefined, Null, Str(<<>>)}

\* The record of the store is the one syncFromGraph writes for the agent.
StoredFromGraph(tbl, agent) ==
  LET id == parseInt(agent.agentId.v)
  IN  /\ id \in DOMAIN tbl
      /\ tbl[id].name = (IF RegOf(agent).name.t = "string" THEN RegOf(agent).name ELSE Null)
      /\ tbl[id].agent_uri = agent.agentURI
      /\ tbl[id].reputation = parseInt(agent.totalFeedback.v)

StoredFromRest(tbl, agent) ==
  /\ agent.token_id.v \in DOMAIN tbl
  /\ tbl[agent.token_id.v].name = (IF agent.name.t = "string" THEN agent.name ELSE Null)
  /\ tbl[agent.token_id.v].wallet_address =
       (IF agent.agent_wallet.t = "string" THEN agent.agent_wallet ELSE agent.owner_address)

\* C17: a record whose ingestion throws is skipped and the pass goes on:
\* when the pass has returned, every other record it received (and, in
\* curated mode, did not filter out) is stored, SyncState carries the
\* timestamp of the pass, and the count returned is the number of records
\* upserted.
C17_SkipMalformed ==
  \A p \in Active :
    LET f == calls[p]
        graphOk == {i \in 1..Len(f.gdata) :
                      /\ f.all \/ ~NoEndpoint(f.gdata[i])
                      /\ ~GraphExtractThrows(RegOf(f.gdata[i]))}
        restOk  == {i \in 1..Len(f.rdata) : ~RestExtractThrows(f.rdata[i])}
    IN  /\ f.graph = "returned" =>
             /\ f.outcome = "return"
             /\ f.value.count = Cardinality(graphOk)
             /\ \A i \in graphOk : StoredFromGraph(agents, f.gdata[i])
             /\ sync_state["lastSyncTime_base"] = toString(f.doneAt)
             /\ sync_state["indexed_base"] = toString(Cardinality(graphOk))
        /\ (f.rest = "returned" /\ f.total > 0) =>
             /\ f.outcome = "return"
             /\ f.value.count = Cardinality(restOk)
             /\ \A i \in restOk : StoredFromRest(agents, f.rdata[i])
             /\ sync_state["lastSyncTime_" \o f.network] = toString(f.doneAt)

\* A curated Graph pass whose first record was malformed has stored the
\* record that followed it on the page and the record of the next page.
C17_Witness ==
  \E p \in Active :
    /\ calls[p].graph = "returned"
    /\ ~calls[p].all
    /\ calls[p].gdata = <<GraphAgentD, GraphAgentA, GraphAgentC>>
    /\ Len(calls[p].gpages) = 2
    /\ calls[p].value.count = 2
    /\ {1, 3} \subseteq DOMAIN agents

\* The call of lookupAgentById has returned an agent fetched from the
\* subgraph.
LiveHit(f) ==
  /\ f.fn = "lookupAgentById"
  /\ f.pc = "done" /\ f.outcome = "return"
  /\ f.reqs # <<>>
  /\ f.value.agent # Null

\* C18: lookupAgentById writes nothing: no step of a call, whatever its
\* outcome, changes the Record Store or the SyncState table, and an agent
\* found in the subgraph is returned without being stored, so that
\* getAgent(id) still finds nothing.
C18_LookupReadOnly ==
  /\ [][ \A p \in Active :
           (calls'[p] # calls[p] /\ calls'[p].fn = "lookupAgentById") =>
             (agents' = agents /\ sync_state' = sync_state)
       ]_vars
  /\ [](\A p \in Active :
          (LiveHit(calls[p]) /\ agents = calls[p].pre.agents) =>
            getAgentValue(agents, calls[p].agentId) = Undefined)

\* An agent that is not in the non-empty store was found in the subgraph.
C18_Witness ==
  \E p \in Active :
    /\ LiveHit(calls[p])
    /\ calls[p].value.agent.v.agent_id = calls[p].agentId
    /\ agents # <<>> /\ sync_state # <<>>
    /\ agents = calls[p].pre.agents

\* C19: lookupAgentById reads the Record Store first.  A hit is returned
\* without a request; a miss without a Graph API key returns null without a
\* request; a miss with a key sends exactly one query for a single agent,
\* whose id is the chain id of the network asked for, a colon, and the agent
\* id.
C19_LookupOrder ==
  \A p \in Active :
    LET f == calls[p]
    IN  f.fn = "lookupAgentById" =>
          IF f.agentId \in DOMAIN f.pre.agents
          THEN /\ f.reqs = <<>>
               /\ f.pc = "done" /\ f.outcome = "return"
               /\ f.value.agent = getAgentValue(f.pre.agents, f.agentId)
          ELSE IF graphApiKey = Str(<<>>)
          THEN /\ f.reqs = <<>>
               /\ f.pc = "done" /\ f.outcome = "return"
               /\ f.value.agent = Null
          ELSE f.reqs = <<[src |-> "graph", q |-> "agent",
                           id |-> toString(CHAIN_IDS(f.network)) \o <<":">>
                                    \o toString(f.agentId)]>>

\* The head reads a call has sent: one per call of syncFromChain.
ChainScans(f) == SelectSeq(f.creqs, LAMBDA r : r.q = "head")

\* C20: every tick of the periodic timer starts one smartSync; the chain
\* scan is called in a tick exactly when that smartSync has thrown, and at
\* most once; a chain scan that throws as well ends the tick quietly: no
\* tick ever ends with an error.
C20_TickFallback ==
  \A p \in Active :
    LET f == calls[p]
    IN  f.fn = "tick" =>
          /\ f.reqs # <<>>
          /\ f.reqs[1].src = (IF graphApiKey = Str(<<>>) THEN "rest" ELSE "graph")
          /\ f.chain # "no" <=> f.rest = "threw"
          /\ (f.graph = "returned" \/ f.rest = "returned") => f.creqs = <<>>
          /\ Len(ChainScans(f)) = (IF f.chain = "no" THEN 0 ELSE 1)
          /\ f.outcome # "throw"
          /\ f.pc = "done" =>
               /\ f.outcome = "return"
               /\ f.graph = "returned" \/ f.rest = "returned"
                    \/ f.chain \in {"returned", "threw"}

\* Both sources failed in a tick that had a Graph key, and the chain scan
\* that followed failed too.
C20_Witness ==
  \E p \in Active :
    /\ calls[p].fn = "tick"
    /\ calls[p].graph = "threw"
    /\ calls[p].rest = "threw"
    /\ calls[p].chain = "threw"
    /\ calls[p].pc = "done"

\* C21: startPeriodicSync starts the initial sync in the step in which it
\* arms the timer and returns the handle: from then on the initial sync is
\* waiting for the first source smartSync asks (the Graph with a key,
\* 8004scan without) while the caller already holds the handle.  Whatever
\* the sources answer, and while they do not answer, the initial sync never
\* ends with a throw: when 8004scan fails it goes on with the chain scan,
\* and a throw of the chain scan is swallowed.
C21_InitialSync ==
  /\ [](\A p \in Active :
          LET f == calls[p]
          IN  f.fn = "initial" =>
                /\ timer.state # "none"
                /\ f.reqs # <<>>
                /\ f.reqs[1].src = (IF graphApiKey = Str(<<>>) THEN "rest" ELSE "graph")
                /\ f.outcome # "throw"
                /\ f.chain # "no" <=> f.rest = "threw"
                /\ f.pc = "done" => f.outcome = "return")
  /\ [][timer.state = "none" /\ timer'.state # "none" =>
          /\ timer'.state = "armed"
          /\ \E p \in Active :
               /\ calls'[p].fn = "initial"
               /\ calls'[p].pc \in {"graph_stats", "rest_fetch"}
               /\ Len(calls'[p].reqs) = 1]_vars

C21_Witness ==
  \E p \in Active :
    /\ calls[p].fn = "initial" /\ calls[p].pc = "done"
    /\ calls[p].rest = "threw" /\ calls[p].chain = "threw"
    /\ calls[p].outcome = "return"

\* A pass of the timer callback that has begun and has not ended.
TickInFlight(f) == f.fn = "tick" /\ f.pc \notin {"idle", "done"}

\* C22: once the handle returned by startPeriodicSync has been cleared, the
\* timer stays cleared and no pass of the timer callback begins: a pass in
\* flight after a step was in flight before it, and no call of the
\* orchestrator is counted.  A pass in flight when the timer was cleared
\* goes on to its end.
C22_Cancellable ==
  [][timer.state = "cleared" =>
       /\ timer'.state = "cleared"
       /\ ncalls' = ncalls
       /\ \A p \in Active : TickInFlight(calls'[p]) => TickInFlight(calls[p])]_vars

C22_Witness ==
  /\ timer.state = "cleared"
  /\ \E p \in timer.inflight : calls[p].fn = "tick" /\ calls[p].pc = "done"

\* The requests of a chain scan: a log query for a window (level 1) or for
\* a fallback window (level 2).
IsLogs(r, level) == r.q = "logs" /\ r.level = level

\* The window a request at position j belongs to: the position of the last
\* level-1 log query at or before j (0 when there is none).
WindowIdx(L, j) ==
  IF \E i \in 1..j : IsLogs(L[i], 1)
  THEN CHOOSE i \in 1..j : IsLogs(L[i], 1) /\ \A k \in (i + 1)..j : ~IsLogs(L[k], 1)
  ELSE 0

\* The fallback queries sent for the window asked for at position i.
SubsOf(L, i) == {j \in 1..Len(L) : IsLogs(L[j], 2) /\ WindowIdx(L, j) = i}

\* The scan has left the loop over the windows.
PastWindows(f) ==
  \/ f.pc \in {"chain_uri", "chain_fetch", "chain_end"}
  \/ f.chain = "returned" /\ f.lastSynced < f.currentBlock

\* C23 as stated: after the query for a full window has failed, the window
\* is retried as two halves, so the first fallback query covers the first
\* half of the window.
C23_TwoHalves ==
  \A p \in Active :
    LET L == calls[p].creqs
    IN  \A i \in 1..(Len(L) - 1) :
          (IsLogs(L[i], 1) /\ L[i].to - L[i].from = CHUNK_SIZE /\ IsLogs(L[i + 1], 2)) =>
            /\ L[i + 1].from = L[i].from
            /\ L[i + 1].to = L[i].from + ((CHUNK_SIZE + 1) \div 2) - 1

\* C23, amended: the windows asked for are the consecutive windows of
\* CHUNK_SIZE + 1 blocks from lastSynced up to the head, whatever fails; a
\* window whose query failed is asked for once more as consecutive
\* fallback windows of SUB_SIZE blocks that cover it exactly
\* (five for a full window in the code), each asked for once and none
\* halved; a failed fallback window is skipped; no failed log query makes
\* the scan throw, and the scan leaves the loop only after the window that
\* ends at the head.
C23_SubRanges ==
  \A p \in Active :
    LET f == calls[p]
        L == f.creqs
        n == Len(L)
    IN  f.chain # "no" =>
          /\ \A j \in 1..n : IsLogs(L[j], 1) =>
               LET k == Cardinality({i \in 1..j : IsLogs(L[i], 1)})
               IN  /\ L[j].from = f.lastSynced + (k - 1) * (CHUNK_SIZE + 1)
                   /\ L[j].from <= f.currentBlock
                   /\ L[j].to = Min(L[j].from + CHUNK_SIZE, f.currentBlock)
                   /\ (j > 1 /\ L[j - 1].q = "logs") => L[j - 1].to = L[j].from - 1
          /\ \A j \in 1..n : IsLogs(L[j], 2) =>
               LET w == WindowIdx(L, j)
               IN  /\ w # 0
                   /\ L[j].to = Min(L[j].from + SUB_SIZE - 1, L[w].to)
                   /\ L[j].from = L[w].from + (j - w - 1) * SUB_SIZE
                   /\ L[j].from <= L[w].to
                   /\ \A k \in (w + 1)..j : IsLogs(L[k], 2)
          /\ \A i \in 1..n :
               (/\ IsLogs(L[i], 1)
                /\ i < n /\ IsLogs(L[i + 1], 2)
                /\ PastWindows(f) \/ \E k \in (i + 1)..n : IsLogs(L[k], 1)) =>
                 Cardinality(SubsOf(L, i)) =
                   (L[i].to - L[i].from + SUB_SIZE) \div SUB_SIZE
          /\ PastWindows(f) =>
               \E j \in 1..n :
                 /\ L[j].q = "logs" /\ L[j].to = f.currentBlock
                 /\ \A k \in (j + 1)..n : L[k].q # "logs"
          /\ f.chain = "threw" => \A j \in 1..n : L[j].q # "logs"

\* A scan that has returned after the query for its first window and the
\* fallback query for the blocks of the first mint event failed: the event
\* of the second window is the only one it has collected.
C23_Witness ==
  \E p \in Active :
    LET f == calls[p]
    IN  /\ f.chain = "returned"
        /\ \E i \in 1..(Len(f.creqs) - 1) :
             /\ IsLogs(f.creqs[i], 1) /\ IsLogs(f.creqs[i + 1], 2)
             /\ f.creqs[i].to - f.creqs[i].from = CHUNK_SIZE
             /\ \E k \in (i + 1)..Len(f.creqs) : IsLogs(f.creqs[k], 1)
        /\ Len(f.events) = 1
        /\ f.events[1].agentId = 2

Processed(f) ==
  IF f.pc \in {"chain_uri", "chain_fetch"} THEN f.ev - 1
  ELSE IF f.chain = "returned" THEN Len(f.events)
  ELSE 0

\* C25: every mint event the loop of a chain scan is done with has been
\* upserted, once: the count of upserts is the count of these events, and
\* the record of each has reputation 0 and the owner of the event as its
\* wallet and payment address.
C25_EveryMintIndexed ==
  \A p \in Active :
    LET f == calls[p]
    IN  f.chain # "no" =>
          /\ f.indexed = Processed(f)
          /\ \A i \in 1..Processed(f) :
               LET e == f.events[i]
               IN  /\ e.agentId \in DOMAIN agents
                   /\ agents[e.agentId].reputation = 0
                   /\ agents[e.agentId].wallet_address = e.owner
                   /\ agents[e.agentId].payment_address = e.owner

\* C26: a read command whose awaited sync threw over an empty cache reports
\* the failure and prints nothing; over a cache that was not empty it
\* prints the records of the cache, and the table it reads them from is
\* the table of before the refresh.  A command over a stale cache prints
\* from the table as it is, and a background refresh that then fails
\* leaves the table as it was.
C26_ReadCommands ==
  \A p \in Active :
    LET f == calls[p]
    IN  /\ (f.fn \in Commands /\ f.rest = "threw" /\ f.count0 = 0) =>
             /\ f.pc = "done"
             /\ f.report = "failed"
             /\ f.shown = <<>>
        /\ (f.fn \in Commands /\ f.rest = "threw" /\ f.count0 > 0 /\ f.pc = "done") =>
             /\ f.report = "results"
             /\ f.shown \in CommandSearch(f.fn, f.post)
             /\ f.post = f.pre.agents
        /\ (f.fn \in Commands /\ f.rest = "no" /\ f.graph = "no" /\ f.pc = "done") =>
             /\ f.report = "results"
             /\ f.shown \in CommandSearch(f.fn, f.pre.agents)
        /\ (f.closed /\ f.pc = "done" /\ f.outcome = "throw") =>
             agents = f.pre.agents

(***************************************************************************)
(* The capability extractors.                                              *)
(***************************************************************************)
TagsOf(list) == {list[i] : i \in 1..Len(list)}

NoTagTwice(list) ==
  \A i, j \in 1..Len(list) : i # j => list[i] # list[j]

\* The tags the registration file stands for: its trust mechanisms in lower
\* case, x402, one tag per endpoint that is set (the field `oasf` deciding
\* the tag oasf), its tools and skills behind their prefixes.
DeclaredTags(reg, oasf) ==
  LET items(list) == IF list.t = "array"
                     THEN {list.v[i].v : i \in 1..Len(list.v)} ELSE {}
      one(v, tag) == IF Falsy(v) THEN {} ELSE {tag}
  IN  {toLowerCase(t) : t \in items(reg.supportedTrusts)}
      \cup one(reg.x402Support, TagX402)
      \cup one(reg.mcpEndpoint, TagMcp)
      \cup one(reg.a2aEndpoint, TagA2a)
      \cup one(reg.webEndpoint, TagWeb)
      \cup one(oasf, <<"o", "a", "s", "f">>)
      \cup one(reg.emailEndpoint, <<"e", "m", "a", "i", "l">>)
      \cup {<<"m", "c", "p", ":">> \o t : t \in items(reg.mcpTools)}
      \cup {<<"a", "2", "a", ":">> \o t : t \in items(reg.a2aSkills)}
      \cup {<<"o", "a", "s", "f", ":">> \o t : t \in items(reg.oasfSkills)}

\* C27 as stated: what the extractor of the Graph source returns holds
\* exactly the tags the registration file stands for (trust mechanisms in
\* lower case, x402, one tag per endpoint kind present: mcp, a2a, web, oasf,
\* email; prefixed tools and skills), and no tag twice.
C27_GraphUnion ==
  ret.op = "extractCapabilities" =>
    (ret.source = "graph" /\ ret.outcome = "return" =>
       /\ TagsOf(ret.value) = DeclaredTags(ret.payload, ret.payload.oasfEndpoint)
       /\ NoTagTwice(ret.value))

\* C27, amended: the same with the tag oasf standing for the flag hasOASF of
\* the registration file, not for its OASF endpoint.
C27_GraphUnionFlag ==
  ret.op = "extractCapabilities" =>
    (ret.source = "graph" /\ ret.outcome = "return" =>
       /\ TagsOf(ret.value) = DeclaredTags(ret.payload, ret.payload.hasOASF)
       /\ NoTagTwice(ret.value))

\* x402Support = true, an MCP endpoint and the tools t1, t2 have yielded
\* x402, mcp, mcp:t1, mcp:t2.
C27_Witness ==
  /\ ret.op = "extractCapabilities"
  /\ ret.source = "graph"
  /\ ret.payload = [EmptyReg EXCEPT !.x402Support = Bool(TRUE),
                                    !.mcpEndpoint = Str(<<"u">>),
                                    !.mcpTools = Arr(<<Str(TextT1), Str(TextT2)>>)]
  /\ ret.value = << TagX402, TagMcp, <<"m", "c", "p", ":", "t", "1">>,
                    <<"m", "c", "p", ":", "t", "2">> >>

\* C28: the capability list of every row the sources have written holds
\* lowercase tags only, and no tag twice.
C28_LowercaseNoDuplicates ==
  \A id \in DOMAIN agents :
    LET caps == JSONparse(agents[id].capabilities)
    IN  /\ \A i \in 1..Len(caps) : caps[i] = toLowerCase(caps[i])
        /\ NoTagTwice(caps)

\* C29: no call of a capability extractor throws; every call returns a
\* list of tags.
C29_NeverRaises ==
  ret.op = "extractCapabilities" => ret.outcome = "return"

(***************************************************************************)
(* Readers beside writers.                                                 *)
(***************************************************************************)

\* The complete rows one write can leave under an id: the row of one upsert
\* of the test metadata, of one agent of the subgraph, or of one agent of
\* 8004scan, written at some time.
CompleteRows(id) ==
  LET regOf(a) == IF Falsy(a.registrationFile) THEN EmptyReg
                  ELSE a.registrationFile.v
  IN  {BoundValues(id, MetaFull, MaxRep, t) @@ ColumnDefaults : t \in Times}
      \cup {BoundValues(id, GraphMetadata(a, regOf(a)),
                        ParseIntOrZero(a.totalFeedback), t) @@ ColumnDefaults :
              a \in {g \in GraphAgents : parseInt(g.agentId.v) = id
                                         /\ ~GraphExtractThrows(regOf(g))},
              t \in Times}
      \cup {BoundValues(id, RestMetadata(a), Or(a.total_score, Num(0)).v, t)
              @@ ColumnDefaults :
              a \in {r \in RestAgents : r.token_id.v = id /\ ~RestExtractThrows(r)},
              t \in Times}

CompleteRecords(id) == {ParseRow(row) : row \in CompleteRows(id)}

\* C30: writes are atomic per record.  Every row of the table is the
\* complete row of one write; what getAgent and searchAgents return for an
\* id is the complete record of one write, that of the table at the read,
\* never a mixture; and a row leaves the table in a removal of its id only,
\* never while it is replaced, so that a read finds no record only where
\* the table holds none.
C30_AtomicWrites ==
  /\ [](\A id \in DOMAIN agents : agents[id] \in CompleteRows(id))
  /\ [](ret.op = "getAgent" =>
          (ret.value.t = "object" => ret.value.v \in CompleteRecords(ret.agentId)))
  /\ [](ret.op = "searchAgents" =>
          \A i \in 1..Len(ret.value) :
            ret.value[i] \in CompleteRecords(ret.value[i].agent_id))
  /\ [][\A id \in DOMAIN agents :
          id \notin DOMAIN agents' => ret'.op = "removeAgent" /\ ret'.agentId = id]_vars
  /\ [][(ret = NoCall /\ ret'.op = "getAgent") =>
          /\ ret'.value.t = "undefined" => ret'.agentId \notin DOMAIN agents
          /\ ret'.value.t = "object" => ret'.value.v = ParseRow(agents[ret'.agentId])]_vars

\* A pass that has replaced the row of agent 1 is still in flight, and
\* getAgent(1) has returned the new record.
C30_Witness ==
  /\ ret.op = "getAgent"
  /\ ret.agentId = 1
  /\ \E p \in Active :
       /\ calls[p].pc \notin {"idle", "done"}
       /\ calls[p].indexed > 0
       /\ 1 \in DOMAIN calls[p].pre.agents
       /\ calls[p].pre.agents[1] # agents[1]
       /\ ret.value = Obj(ParseRow(agents[1]))

(***************************************************************************)
(* The SyncState table.                                                    *)
(***************************************************************************)

\* C31: SyncState is an overwrite-only table.  A step of setSyncState
\* leaves the key with the value set and every other key as it was; no
\* other step changes a key, and no step removes one; getSyncState returns
\* the value the key holds, undefined when it was never set.  (A key holds
\* one value: the table is keyed by `key`.)
C31_OverwriteOnly ==
  /\ [][\A k \in DOMAIN sync_state :
          /\ k \in DOMAIN sync_state'
          /\ sync_state'[k] # sync_state[k] =>
               ret'.op = "setSyncState" /\ ret'.key = k]_vars
  /\ [][(ret = NoCall /\ ret'.op = "setSyncState") =>
          /\ DOMAIN sync_state' = (DOMAIN sync_state) \cup {ret'.key}
          /\ sync_state'[ret'.key] = ret'.value]_vars
  /\ [][(ret = NoCall /\ ret'.op = "getSyncState") =>
          ret'.value = IF ret'.key \in DOMAIN sync_state
                       THEN Str(sync_state[ret'.key]) ELSE Undefined]_vars

\* Two keys hold values set at different times, and getSyncState has
\* returned the later value for the key set last.
C31_Witness ==
  /\ ret.op = "getSyncState"
  /\ ret.key = "lastSyncTime_mainnet"
  /\ ret.value = Str(toString(StartTime + 1))
  /\ "lastSyncTime_testnet" \in DOMAIN sync_state
  /\ sync_state["lastSyncTime_testnet"] = toString(StartTime)

(***************************************************************************)
(* What sync passes do to the records.                                     *)
(***************************************************************************)

\* C32: no step of a sync pass, whatever its source and however it ends,
\* removes a record: the ids stored after a step include the ids stored
\* before it, and the number of records does not decrease.
C32_NeverShrinks ==
  [][/\ DOMAIN agents \subseteq DOMAIN agents'
     /\ Cardinality(DOMAIN agents') >= Cardinality(DOMAIN agents)]_vars

\* A pass over a store that held records has ended with both sources and
\* the chain scan failed, and the records are still there.
C32_Witness ==
  \E p \in Active :
    /\ calls[p].pc = "done"
    /\ calls[p].rest = "threw"
    /\ calls[p].chain = "threw"
    /\ DOMAIN calls[p].pre.agents # {}
    /\ DOMAIN calls[p].pre.agents \subseteq DOMAIN agents

\* The owner addresses the sources report for an id.
OwnersOf(id) ==
  {a.owner : a \in {g \in GraphAgents : parseInt(g.agentId.v) = id}}
  \cup {a.owner_address : a \in {r \in RestAgents : r.token_id.v = id}}

\* C33: the wallet address stored for an entity is the owner address its
\* source has reported, also when the agent wallet differs from the owner.
C33_WalletIsOwner ==
  \A id \in DOMAIN agents : agents[id].wallet_address \in OwnersOf(id)

(***************************************************************************)
(* The background refresh of the read commands.                            *)
(***************************************************************************)

\* C34: a background refresh started by a read command over a stale cache
\* that has come to its end without a failure of a source has returned,
\* and a sync timestamp not older than its start is recorded for its
\* network.
C34_BackgroundRefreshCommits ==
  \A p \in Active :
    LET f   == calls[p]
        key == "lastSyncTime_" \o f.network
    IN  (f.fn = "refreshCache" /\ f.closed /\ f.pc = "done"
         /\ f.error.kind \in {"none", "not_open"}) =>
          /\ f.outcome = "return"
          /\ key \in DOMAIN sync_state
          /\ parseInt(sync_state[key]) >= f.startedAt

(***************************************************************************)
(* Passes that overlap.                                                    *)
(***************************************************************************)
InFlight(f) == f.pc \notin {"idle", "done"}

WithoutIndexedAt(tbl) == [id \in DOMAIN tbl |-> [tbl[id] EXCEPT !.indexed_at = 0]]

WithoutKey(ss, key) == [k \in (DOMAIN ss) \ {key} |-> ss[k]]

\* What one pass over the agents served leaves, begun at the store `pre`:
\* through the subgraph, or through 8004scan.
SinglePass(pre, viaGraph) ==
  IF viaGraph
  THEN LET st == GraphIngest([tbl |-> pre.agents, indexed |-> 0], ServedByGraph,
                             FALSE, StartTime)
       IN  [ agents     |-> st.tbl,
             sync_state |-> GraphSyncState(pre.sync_state, GraphNetworkOf("mainnet"),
                                           Len(ServedByGraph), st.indexed, FALSE,
                                           StartTime) ]
  ELSE LET st == RestIngest([tbl |-> pre.agents, indexed |-> 0], ServedByRest,
                            StartTime)
       IN  [ agents     |-> st.tbl,
             sync_state |-> RestSyncState(pre.sync_state, "mainnet",
                                          Len(ServedByRest), StartTime) ]

\* Both passes of a run of two have returned, both through the subgraph or
\* both through 8004scan without a key, no request of theirs having failed.
BothReturned(f, g, viaGraph) ==
  /\ ncalls = 2
  /\ f.fn = "initial" /\ g.fn = "tick"
  /\ f.pc = "done" /\ g.pc = "done"
  /\ f.outcome = "return" /\ g.outcome = "return"
  /\ IF viaGraph THEN f.graph = "returned" /\ g.graph = "returned"
     ELSE f.graph = "no" /\ g.graph = "no" /\ f.rest = "returned" /\ g.rest = "returned"

\* C36: two passes for one network over the same source data, however
\* their page requests and upserts interleave, leave the records (but for
\* indexed_at) and the SyncState (but for the timestamp) that one pass
\* leaves.
C36_OverlapRedundant ==
  \A p, q \in Active : \A viaGraph \in BOOLEAN :
    BothReturned(calls[p], calls[q], viaGraph) =>
      LET one == SinglePass(calls[p].pre, viaGraph)
          key == "lastSyncTime_" \o (IF viaGraph THEN GraphNetworkOf("mainnet")
                                     ELSE "mainnet")
      IN  /\ WithoutIndexedAt(agents) = WithoutIndexedAt(one.agents)
          /\ WithoutKey(sync_state, key) = WithoutKey(one.sync_state, key)

\* The tick began while the initial sync was in flight, after the initial
\* sync had ingested its first page, and both have returned through the
\* subgraph.
C36_Witness ==
  \E p, q \in Active :
    /\ BothReturned(calls[p], calls[q], TRUE)
    /\ calls[q].startedAt < calls[p].doneAt
    /\ calls[q].pre.agents # <<>>
    /\ calls[q].pre.agents # agents

\* The block a chain scan has to start from: the fromBlock option when it
\* was given, else the block recorded for the network when the scan was
\* called, else the genesis block of the network.
RecordedBlock(f) == "lastBlock_" \o f.network

Resumed(f) == f.fromBlock = Undefined /\ RecordedBlock(f) \in DOMAIN f.pre.sync_state

StartOf(f) ==
  IF f.fromBlock # Undefined THEN f.fromBlock.v
  ELSE IF RecordedBlock(f) \in DOMAIN f.pre.sync_state
       THEN parseInt(f.pre.sync_state[RecordedBlock(f)])
       ELSE SYNC_CONFIG(f.network).startBlock

LogRequests(f) == {j \in 1..Len(f.creqs) : f.creqs[j].q = "logs"}

\* A fallback query of the scan that failed: an event of its blocks was not
\* collected.
FailedSub(f, j) ==
  /\ IsLogs(f.creqs[j], 2)
  /\ LET missed == LogsIn(f.creqs[j].from, f.creqs[j].to)
     IN  \E i \in 1..Len(missed) : \A n \in 1..Len(f.events) : f.events[n] # missed[i]

\* C37: a chain scan called on its own starts from fromBlock when given,
\* else from the block recorded for the network, else from the genesis
\* block, and every log query lies between that block and the head read at
\* the start, the last window ending at the head; with a start at or above
\* the head it returns 0, having sent no log query and written nothing;
\* when it completes, the block recorded is that head, whatever fallback
\* query failed; and every log query of a resumed scan ends above the
\* block recorded, so none is a query of the scan that recorded it.
C37_ScanBounds ==
  \A p \in Active :
    LET f == calls[p]
        L == f.creqs
        k == RecordedBlock(f)
    IN  (f.fn = "syncFromChain" /\ f.chain # "no") =>
          /\ f.lastSynced = StartOf(f)
          /\ \A j \in LogRequests(f) :
               /\ f.lastSynced <= L[j].from
               /\ L[j].from <= L[j].to
               /\ L[j].to <= f.currentBlock
          /\ PastWindows(f) => \E j \in LogRequests(f) :
                                 IsLogs(L[j], 1) /\ L[j].to = f.currentBlock
          /\ (f.chain = "returned" /\ f.lastSynced >= f.currentBlock) =>
               /\ LogRequests(f) = {}
               /\ f.value = [count |-> 0]
               /\ agents = f.pre.agents
               /\ sync_state = f.pre.sync_state
          /\ (f.chain = "returned" /\ f.lastSynced < f.currentBlock) =>
               /\ k \in DOMAIN sync_state
               /\ sync_state[k] = toString(f.currentBlock)
          /\ Resumed(f) =>
               \A j \in LogRequests(f) :
                 /\ L[j].from >= parseInt(f.pre.sync_state[k])
                 /\ L[j].to > parseInt(f.pre.sync_state[k])

\* A scan resumed from the block an earlier scan recorded has completed and
\* recorded its head, although one of its fallback queries had failed.
C37_Witness ==
  \E p \in Active :
    LET f == calls[p]
    IN  /\ f.fn = "syncFromChain" /\ f.chain = "returned"
        /\ Resumed(f)
        /\ f.lastSynced = parseInt(f.pre.sync_state[RecordedBlock(f)])
        /\ f.lastSynced < f.currentBlock
        /\ \E j \in LogRequests(f) : FailedSub(f, j)
        /\ sync_state[RecordedBlock(f)] = toString(f.currentBlock)

\* A scan given fromBlock 0 has started from block 0, below the block
\* recorded for its network.
C37_WitnessFromBlock ==
  \E p \in Active :
    LET f == calls[p]
    IN  /\ f.fn = "syncFromChain" /\ f.chain = "returned"
        /\ f.fromBlock = Num(0)
        /\ RecordedBlock(f) \in DOMAIN f.pre.sync_state
        /\ LogRequests(f) # {}
        /\ \E j \in LogRequests(f) : f.creqs[j].from = 0

\* The log queries of a level that cover block b; the queries of a level
\* among the positions S.
Covering(L, S, b) == {j \in S : L[j].from <= b /\ b <= L[j].to}

Level(L, level) == {j \in 1..Len(L) : IsLogs(L[j], level)}

\* The fallback queries sent after the window query at position i and
\* before the next window query.
FallbackOf(L, i) ==
  {j \in (i + 1)..Len(L) : IsLogs(L[j], 2) /\ \A k \in (i + 1)..j : ~IsLogs(L[k], 1)}

\* The fallback windows of the window asked for at position i are all
\* sent: a later window was asked for, or the loop over the windows is over.
SubsDone(f, i) ==
  \/ PastWindows(f)
  \/ \E j \in (i + 1)..Len(f.creqs) : IsLogs(f.creqs[j], 1)

\* C38: the windows of a chain scan have at most CHUNK_SIZE + 1 blocks
\* (10,000 in the code), each begins right after the one before, no block
\* is in two of them, and once the loop is over every block from the start
\* block to the head is in exactly one; the fallback windows of a failed
\* window have at most SUB_SIZE blocks (2,000), lie in that window, no
\* block is in two of them, and once they are all sent every block of the
\* window is in exactly one.
C38_Partition ==
  \A p \in Active :
    LET f == calls[p]
        L == f.creqs
    IN  f.chain # "no" =>
          \A W \in {Level(L, 1)} :
            /\ \A j \in W :
                 /\ L[j].from <= L[j].to
                 /\ L[j].to - L[j].from + 1 <= CHUNK_SIZE + 1
                 /\ f.lastSynced <= L[j].from /\ L[j].to <= f.currentBlock
                 /\ \A i \in W : i < j /\ (\A k \in W : ~(i < k /\ k < j)) =>
                      L[j].from = L[i].to + 1
            /\ \A b \in 0..(MaxHead + 1) : Cardinality(Covering(L, W, b)) <= 1
            /\ PastWindows(f) =>
                 \A b \in f.lastSynced..f.currentBlock :
                   Cardinality(Covering(L, W, b)) = 1
            /\ \A i \in W : \A S \in {FallbackOf(L, i)} :
                 /\ \A j \in S :
                      /\ L[j].from <= L[j].to
                      /\ L[j].to - L[j].from + 1 <= SUB_SIZE
                      /\ L[i].from <= L[j].from /\ L[j].to <= L[i].to
                 /\ \A b \in L[i].from..L[i].to :
                      /\ Cardinality(Covering(L, S, b)) <= 1
                      /\ (S # {} /\ SubsDone(f, i)) => Covering(L, S, b) # {}

\* A scan over more than one window is past its windows, and a full window
\* of it, not the last, failed and was asked for again in fallback windows.
C38_Witness ==
  \E p \in Active :
    LET f == calls[p]
        L == f.creqs
    IN  /\ PastWindows(f)
        /\ Cardinality(Level(L, 1)) >= 2
        /\ \E i \in Level(L, 1) :
             /\ L[i].to < f.currentBlock
             /\ L[i].to - L[i].from = CHUNK_SIZE
             /\ Cardinality(FallbackOf(L, i)) >= 2
             /\ SubsDone(f, i)

\* C39: searchAgents with a limit of 1 or more returns at most that many
\* records; with limit 0 it returns what it returns without a limit, a
\* list of every record that passes the filters; and getTopAgents(0)
\* returns a list of every stored record.
C39_LimitZero ==
  /\ (ret.op = "searchAgents" /\ ret.params.limit.t = "number"
        /\ ret.params.limit.v >= 1) =>
       Len(ret.value) <= ret.params.limit.v
  /\ (ret.op = "searchAgents" /\ ret.params.limit = Num(0)) =>
       LET absent == [ret.params EXCEPT !.limit = Undefined]
       IN  /\ searchAgentsValues(agents, ret.params) = searchAgentsValues(agents, absent)
           /\ ret.value \in searchAgentsValues(agents, absent)
           /\ IdsOf(ret.value) = {id \in DOMAIN agents : Where(agents[id], ret.params)}
           /\ Len(ret.value) = Cardinality(IdsOf(ret.value))
  /\ (ret.op = "getTopAgents" /\ ret.limit = Num(0)) =>
       /\ IdsOf(ret.value) = DOMAIN agents
       /\ Len(ret.value) = getAgentCountValue(agents)

\* A search with limit 0 and a reputation filter of 1 or more has returned
\* two records.
C39_Witness ==
  /\ ret.op = "searchAgents"
  /\ ret.params.limit = Num(0)
  /\ ret.params.minReputation.t = "number"
  /\ ret.params.minReputation.v >= 1
  /\ Len(ret.value) >= 2

\* getTopAgents(0) has returned every record of a store of two or more.
C39_WitnessTop ==
  /\ ret.op = "getTopAgents"
  /\ ret.limit = Num(0)
  /\ Len(ret.value) >= 2

\* The records a returned pass upserted: those of the data it received that
\* the curated filter kept and whose ingestion did not throw.
UpsertedBy(f) ==
  IF f.graph = "returned"
  THEN Cardinality({i \in 1..Len(f.gdata) :
                      /\ f.all \/ ~NoEndpoint(f.gdata[i])
                      /\ ~GraphExtractThrows(RegOf(f.gdata[i]))})
  ELSE Cardinality({i \in 1..Len(f.rdata) : ~RestExtractThrows(f.rdata[i])})

\* C40: the count refreshCache returns is the number of stored records when
\* it found the cache fresh ({synced: false}), and the return value of the
\* sync it awaited when it found the cache stale ({synced: true}): the
\* number of records that pass upserted, whatever the store holds.
C40_CountByBranch ==
  \A p \in Active :
    LET f == calls[p]
    IN  (f.fn = "refreshCache" /\ f.pc = "done" /\ f.outcome = "return") =>
          IF f.value.synced
          THEN /\ f.graph = "returned" \/ f.rest = "returned"
               /\ f.value.count = f.indexed
               /\ f.value.count = UpsertedBy(f)
          ELSE /\ f.graph = "no" /\ f.rest = "no"
               /\ f.value.count = getAgentCountValue(f.pre.agents)
               /\ f.value.count = getAgentCountValue(agents)

\* A refreshCache over a stale cache has returned a count below the number
\* of records the store holds.
C40_Witness ==
  \E p \in Active :
    LET f == calls[p]
    IN  /\ f.fn = "refreshCache" /\ f.pc = "done" /\ f.outcome = "return"
        /\ f.value.synced
        /\ f.value.count >= 1
        /\ f.value.count < getAgentCountValue(agents)

\* A refreshCache over a fresh cache has returned the number of records of
\* a store that holds some.
C40_WitnessFresh ==
  \E p \in Active :
    LET f == calls[p]
    IN  /\ f.fn = "refreshCache" /\ f.pc = "done" /\ f.outcome = "return"
        /\ ~f.value.synced
        /\ f.value.count = getAgentCountValue(agents)
        /\ f.value.count >= 1

====
